---- MODULE Spec2Model ----
(***************************************************************************)
(* Road-network routing of the MKB city map (leveled revision,             *)
(* src/unnamed/part_004): buildRoadGraph, findNearestNode, calculatePath.  *)
(*                                                                         *)
(* Number representation.                                                  *)
(*  - A coordinate is an integer number of half blocks, so that 0.5 is     *)
(*    representable and Math.round has something to round.                 *)
(*  - calculateDistance is the exact square root; the feature catalogues   *)
(*    only hold segments and node pairs whose distance is a whole number   *)
(*    of half blocks (axis-parallel pieces and 3-4-5 triangles).           *)
(*  - Where the code only compares distances (findNearestNode), the model  *)
(*    compares their squares, as exact fractions (sqrt is monotone).       *)
(*  - A time (cost, gScore, fScore, heuristic) t is held as the integer    *)
(*    t * 2 * TimeDen; every speed of the catalogues divides TimeDen, so   *)
(*    distance / speed is exact.  NaN is a separate value of that type.    *)
(*  - Floating-point rounding is not modelled.                             *)
(***************************************************************************)
EXTENDS Integers, Sequences, FiniteSets, TLC

VARIABLES
    features,      \* argument of the last buildRoadGraph call
    roadGraph,     \* let roadGraph = {}   : [keys: insertion order, node: id -> node]
    roadSegments,  \* let roadSegments = []
    pc,            \* "idle" | "search" (inside calculatePath's while loop) | "done"
    startNodeId,   \* calculatePath's arguments
    endNodeId,
    openSet,       \* calculatePath's locals
    gScore,
    cameFrom,
    visited,
    ret,           \* what the last call returned (or threw)
    lastBuild,     \* history: "none" | "first" | "same" | "other", how the list of the
                   \* last buildRoadGraph call relates to the build it replaced
    tempId,        \* src/pathfinding.js, calculatePath: the cursor of the backward walk
    pathSoFar,     \* src/pathfinding.js, calculatePath: path, the coordinates collected
    pathStartCoordinates,  \* src/unmined.js: this.pathStartCoordinates
    pathEndCoordinates,    \* src/unmined.js: this.pathEndCoordinates
    pathLayerSource,       \* src/unmined.js: the features of this.pathLayerSource
    inHandler,             \* src/unmined.js: a Set Path Start / Set Path End callback
                           \* has reached its calculateAndRenderPath call
    earlier        \* history: a calculatePath call made before on the graph as it is
                   \* now, with what it returned; NoCall when none is remembered

\* State that the functions of src/unnamed/part_004 do not touch
reconstruction == <<tempId, pathSoFar>>

page == <<pathStartCoordinates, pathEndCoordinates, pathLayerSource, inHandler>>

outside == <<reconstruction, page, earlier>>

vars == <<features, roadGraph, roadSegments, pc, startNodeId, endNodeId,
          openSet, gScore, cameFrom, visited, ret, lastBuild, outside>>

-----------------------------------------------------------------------------
(* Bounds of the model *)

MaxFeatures == 3

-----------------------------------------------------------------------------
(* Program constants *)

DEFAULT_SPEED == 50
MIN_SPEED == 1
HEURISTIC_SPEED == 80
MAX_DISTANCE == 30

TimeDen == 10 * HEURISTIC_SPEED

NaN == -1

-----------------------------------------------------------------------------
(* JavaScript values of feature properties *)

\* this.pathStartCoordinates = undefined
NoPoint == <<>>

Undefined == [t |-> "undefined", n |-> 0, s |-> ""]
JsNull == [t |-> "null", n |-> 0, s |-> ""]
Num(n) == [t |-> "number", n |-> n, s |-> ""]
Str(s) == [t |-> "string", n |-> 0, s |-> s]

\* a ?? b
Coalesce(a, b) == IF a.t \in {"undefined", "null"} THEN b ELSE a

\* v.toString()
JsToString(v) == IF v.t = "number" THEN ToString(v.n) ELSE v.s

\* String.prototype.toUpperCase / toLowerCase, on the strings the catalogues use
ToUpperCase(s) ==
    CASE s = "b" -> "B"
      [] s = "be" -> "BE"
      [] s = "eb" -> "EB"
      [] s = "x" -> "X"
      [] s = "both" -> "BOTH"
      [] OTHER -> s

ToLowerCase(s) ==
    CASE s = "Ramp" -> "ramp"
      [] s = "RAMP" -> "ramp"
      [] s = "Highway" -> "highway"
      [] s = "Walkway" -> "walkway"
      [] s = "Walkways" -> "walkways"
      [] s = "WALKWAY" -> "walkway"
      [] s = "WALKWAYS" -> "walkways"
      [] s = "WalkWays" -> "walkways"
      [] s = "Street" -> "street"
      [] s = "FORWARD" -> "forward"
      [] s = "B" -> "b"
      [] OTHER -> s

\* parseInt(s, 10) of a string: the integer it starts with, or NaN
IntStrings == [s \in {"-1", "0", "1", "2", "3", "2nd"} |->
                 CASE s = "-1" -> -1 [] s = "0" -> 0 [] s = "1" -> 1
                   [] s = "2" -> 2 [] s = "2nd" -> 2 [] OTHER -> 3]

ParsesAsInt(v) == v.t = "number" \/ (v.t = "string" /\ v.s \in DOMAIN IntStrings)

ParseInt(v) == IF v.t = "number" THEN v.n ELSE IntStrings[v.s]

\* parseFloat(v): the number a string starts with, or NaN (ParsesAsFloat false)
FloatStrings == [s \in {"0", "40", "-5"} |->
                   CASE s = "0" -> 0 [] s = "40" -> 40 [] OTHER -> -5]

ParsesAsFloat(v) == v.t = "number" \/ (v.t = "string" /\ v.s \in DOMAIN FloatStrings)

ParseFloat(v) == IF v.t = "number" THEN v.n ELSE FloatStrings[v.s]

-----------------------------------------------------------------------------
(* Property parsing *)

\* Faulty variant: the sign of the level is lost
parseLevel_Unsigned(props) ==
    LET val == Coalesce(props.Level, props.level)
    IN  IF val.t \in {"undefined", "null"} \/ val = Str("NA") THEN 0
        ELSE IF ParsesAsInt(val)
          THEN (IF ParseInt(val) < 0 THEN 0 - ParseInt(val) ELSE ParseInt(val))
        ELSE 0

parseLevel(props) ==
    LET val == Coalesce(props.Level, props.level)
    IN  IF val.t \in {"undefined", "null"} \/ val = Str("NA") THEN 0
        ELSE IF ParsesAsInt(val) THEN ParseInt(val) ELSE 0

\* Faulty variant: forward and backward exchanged
parsePath_Swapped(props) ==
    LET path == ToUpperCase(JsToString(
                    Coalesce(Coalesce(props.Path, props.oneway), Str("B"))))
    IN  [forward |-> path = "B" \/ path = "EB",
         backward |-> path = "B" \/ path = "BE"]

\* Faulty variant: the backward test is a copy of the forward test
parsePath_CopyPaste(props) ==
    LET path == ToUpperCase(JsToString(
                    Coalesce(Coalesce(props.Path, props.oneway), Str("B"))))
    IN  [forward |-> path = "B" \/ path = "BE",
         backward |-> path = "B" \/ path = "BE"]

parsePath(props) ==
    LET path == ToUpperCase(JsToString(
                    Coalesce(Coalesce(props.Path, props.oneway), Str("B"))))
    IN  [forward |-> path = "B" \/ path = "BE",
         backward |-> path = "B" \/ path = "EB"]

Max(a, b) == IF a >= b THEN a ELSE b

\* Math.max(1, parseFloat(props?.speed ?? props?.Speed ?? 50)): a speed of at
\* least 1, or NaN when the attribute does not start with a number
parseSpeed(props) ==
    LET v == Coalesce(Coalesce(props.speed, props.Speed), Num(DEFAULT_SPEED))
    IN  IF ParsesAsFloat(v) THEN Max(MIN_SPEED, ParseFloat(v)) ELSE NaN

\* Faulty variant: the road class is compared as it is spelled
parseRoadType_CaseSensitive(props) ==
    JsToString(Coalesce(Coalesce(props.Type, props.type), Str("")))

parseRoadType(props) ==
    ToLowerCase(JsToString(Coalesce(Coalesce(props.Type, props.type), Str(""))))

-----------------------------------------------------------------------------
(* Geometry *)

Sqrt(n) == CHOOSE r \in 0..n : r * r <= n /\ (r + 1) * (r + 1) > n

DistSq(coord1, coord2) ==
    LET dx == coord1[1] - coord2[1]
        dz == coord1[2] - coord2[2]
    IN  dx * dx + dz * dz

calculateDistance(coord1, coord2) == Sqrt(DistSq(coord1, coord2))

\* Faulty variant: any step down connects
levelsCanConnect_UpOnly(level1, level2) == level2 - level1 <= 1

\* Faulty variant: levels two apart connect
levelsCanConnect_OffByOne(level1, level2) ==
    (IF level1 - level2 >= 0 THEN level1 - level2 ELSE level2 - level1) <= 2

levelsCanConnect(level1, level2) ==
    (IF level1 - level2 >= 0 THEN level1 - level2 ELSE level2 - level1) <= 1

\* Math.round of a coordinate given in half blocks (halves round up)
MathRound(c) == (c + 1) \div 2

\* Faulty variant: the id is spelled from the coordinate as given, not rounded
NodeId_Unrounded(c) == ToString(c[1]) \o "," \o ToString(c[2])

\* `${Math.round(c[0])},${Math.round(c[1])}`
NodeId(c) == ToString(MathRound(c[1])) \o "," \o ToString(MathRound(c[2]))

-----------------------------------------------------------------------------
(* The graph object *)

\* Properties every plain object inherits from Object.prototype
ObjectProtoKeys == {"constructor", "toString", "valueOf", "hasOwnProperty"}

EmptyObject == [keys |-> <<>>, node |-> <<>>]

HasOwn(graph, id) == id \in DOMAIN graph.node

\* !!graph[id]
Truthy(graph, id) == HasOwn(graph, id) \/ id \in ObjectProtoKeys

PutNode(graph, id, coord) ==
    IF Truthy(graph, id) THEN graph
    ELSE [keys |-> Append(graph.keys, id),
          node |-> graph.node @@ (id :> [x |-> coord[1], z |-> coord[2], edges |-> <<>>])]

\* Faulty variant: only the node the edge leaves is created
addEdge_SourceOnly(graph, fromId, toId, level, cost, fromCoord, toCoord) ==
    LET g2 == PutNode(graph, fromId, fromCoord)
    IN  [g2 EXCEPT !.node[fromId].edges =
            Append(@, [toId |-> toId, level |-> level, cost |-> cost])]

\* (both endpoints are made nodes before the edge is pushed)
addEdge(graph, fromId, toId, level, cost, fromCoord, toCoord) ==
    LET g2 == PutNode(PutNode(graph, fromId, fromCoord), toId, toCoord)
    IN  [g2 EXCEPT !.node[fromId].edges =
            Append(@, [toId |-> toId, level |-> level, cost |-> cost])]

\* dist / speed, in time units
EdgeCost(dist, speed) == IF speed = NaN THEN NaN ELSE (dist * TimeDen) \div speed

\* Faulty variant: a segment is stored only when it is connected in a direction
BuildSegment_OnlyConnected(st, coords, i, path, level, speed, roadType) ==
    LET start == coords[i]
        end == coords[i + 1]
        dist == calculateDistance(start, end)
        cost == EdgeCost(dist, speed)
        startId == NodeId(start)
        endId == NodeId(end)
        segs == IF path.forward \/ path.backward
                  THEN Append(st.segments, [start |-> start, end |-> end,
                                            startId |-> startId, endId |-> endId,
                                            roadType |-> roadType])
                ELSE st.segments
        g1 == IF path.forward
                THEN addEdge(st.graph, startId, endId, level, cost, start, end)
                ELSE st.graph
        g2 == IF path.backward
                THEN addEdge(g1, endId, startId, level, cost, end, start)
                ELSE g1
    IN  [graph |-> g2, segments |-> segs]

\* One iteration of the for loop over a feature's coordinate pairs
BuildSegment(st, coords, i, path, level, speed, roadType) ==
    LET start == coords[i]
        end == coords[i + 1]
        dist == calculateDistance(start, end)
        cost == EdgeCost(dist, speed)
        startId == NodeId(start)
        endId == NodeId(end)
        segs == Append(st.segments, [start |-> start, end |-> end, startId |-> startId,
                                     endId |-> endId, roadType |-> roadType])
        g1 == IF path.forward
                THEN addEdge(st.graph, startId, endId, level, cost, start, end)
                ELSE st.graph
        g2 == IF path.backward
                THEN addEdge(g1, endId, startId, level, cost, end, start)
                ELSE g1
    IN  [graph |-> g2, segments |-> segs]

RECURSIVE BuildSegments(_, _, _, _, _, _, _)
BuildSegments(st, coords, i, path, level, speed, roadType) ==
    IF i > Len(coords) - 1 THEN st
    ELSE BuildSegments(BuildSegment(st, coords, i, path, level, speed, roadType),
                       coords, i + 1, path, level, speed, roadType)

\* !feature and typeof feature, for an element of the features array
IsFalsy(feature) == feature.kind \in {"null", "undefined"}

TypeOf(feature) == IF feature.kind = "null" THEN "object" ELSE feature.kind

\* The callback of features.forEach
BuildFeature(st, feature) ==
    IF IsFalsy(feature) \/ TypeOf(feature) # "object" THEN st
    ELSE IF ~feature.hasGeometry THEN st
    ELSE IF feature.type # "LineString" THEN st
    ELSE IF Len(feature.coordinates) < 2 THEN st
    ELSE LET props == feature.properties
             roadType == parseRoadType(props)
         IN  IF roadType = "walkway" \/ roadType = "walkways" THEN st
             ELSE BuildSegments(st, feature.coordinates, 1, parsePath(props),
                                parseLevel(props), parseSpeed(props), roadType)

\* Faulty variant: an element that is no LineString feature ends the loop
RECURSIVE BuildFeatures_BreaksOff(_, _, _)
BuildFeatures_BreaksOff(st, fs, k) ==
    IF k > Len(fs) THEN st
    ELSE IF fs[k].kind # "object" \/ ~fs[k].hasGeometry \/ fs[k].type # "LineString"
              \/ Len(fs[k].coordinates) < 2
      THEN st
    ELSE BuildFeatures_BreaksOff(BuildFeature(st, fs[k]), fs, k + 1)

RECURSIVE BuildFeatures(_, _, _)
BuildFeatures(st, fs, k) ==
    IF k > Len(fs) THEN st
    ELSE BuildFeatures(BuildFeature(st, fs[k]), fs, k + 1)

\* buildRoadGraph(features): the new values of roadGraph and roadSegments
buildRoadGraph(input) ==
    LET empty == [graph |-> EmptyObject, segments |-> <<>>]
    IN  IF ~input.isArray THEN empty
        ELSE BuildFeatures(empty, input.items, 1)

-----------------------------------------------------------------------------
(* findNearestNode *)

\* A squared distance i - r/d (0 <= r < d), exact
Whole(n) == [i |-> n, r |-> 0, d |-> 1]

\* x < y for two such fractions
FracLt(x, y) ==
    IF x.i # y.i THEN x.i < y.i
    ELSE x.r * y.d > y.r * x.d

\* x <= n for a whole number n
FracLeWhole(x, n) == x.i <= n

\* Squared distance from point p to segment ab
pointToSegmentDistance(p, a, b) ==
    LET vx == b[1] - a[1]
        vz == b[2] - a[2]
        wx == p[1] - a[1]
        wz == p[2] - a[2]
        c1 == vx * wx + vz * wz
        c2 == vx * vx + vz * vz
    IN  IF c1 <= 0 THEN Whole(DistSq(p, a))
        ELSE IF c2 <= c1 THEN Whole(DistSq(p, b))
        ELSE [i |-> (wx * wx + wz * wz) - ((c1 * c1) \div c2),
              r |-> (c1 * c1) % c2,
              d |-> c2]

\* Faulty variant: the radius is exclusive
WithinMaxDistance_Strict(d) ==
    d.i < (2 * MAX_DISTANCE) * (2 * MAX_DISTANCE)
    \/ (d.i = (2 * MAX_DISTANCE) * (2 * MAX_DISTANCE) /\ d.r > 0)

\* d <= MAX_DISTANCE, d given squared and in half blocks
WithinMaxDistance(d) == FracLeWhole(d, (2 * MAX_DISTANCE) * (2 * MAX_DISTANCE))

isRamp(t) == t = "ramp"

isHighway(t) == t = "highway"

\* Faulty variant: the first filter joins its two tests with || instead of &&
SegmentFilter_OrTypo(tier, seg) ==
    CASE tier = 1 -> ~isRamp(seg.roadType) \/ ~isHighway(seg.roadType)
      [] tier = 2 -> ~isRamp(seg.roadType)
      [] OTHER -> TRUE

\* The three filters handed to bestSegment, in the order they are tried
SegmentFilter(tier, seg) ==
    CASE tier = 1 -> ~isRamp(seg.roadType) /\ ~isHighway(seg.roadType)
      [] tier = 2 -> ~isRamp(seg.roadType)
      [] OTHER -> TRUE

\* bestSegment's loop from segment k on; best = 0 stands for null
RECURSIVE BestSegmentFrom(_, _, _, _, _, _)
BestSegmentFrom(segs, targetCoord, tier, k, best, bestDist) ==
    IF k > Len(segs) THEN best
    ELSE LET seg == segs[k]
             d == pointToSegmentDistance(targetCoord, seg.start, seg.end)
         IN  IF ~SegmentFilter(tier, seg)
               THEN BestSegmentFrom(segs, targetCoord, tier, k + 1, best, bestDist)
             ELSE IF (best = 0 \/ FracLt(d, bestDist)) /\ WithinMaxDistance(d)
               THEN BestSegmentFrom(segs, targetCoord, tier, k + 1, k, d)
             ELSE BestSegmentFrom(segs, targetCoord, tier, k + 1, best, bestDist)

bestSegment(segs, targetCoord, tier) ==
    BestSegmentFrom(segs, targetCoord, tier, 1, 0, Whole(0))

\* The fallback loop over the keys of roadGraph; "null" stands for null
RECURSIVE NearestKeyFrom(_, _, _, _, _)
NearestKeyFrom(graph, targetCoord, k, nearestId, minDist) ==
    IF k > Len(graph.keys) THEN nearestId
    ELSE LET nodeId == graph.keys[k]
             node == graph.node[nodeId]
             dist == Whole(DistSq(<<node.x, node.z>>, targetCoord))
         IN  IF (nearestId = "null" \/ FracLt(dist, minDist)) /\ WithinMaxDistance(dist)
               THEN NearestKeyFrom(graph, targetCoord, k + 1, nodeId, dist)
             ELSE NearestKeyFrom(graph, targetCoord, k + 1, nearestId, minDist)

\* The segment findNearestNode settles on (0: none)
ChosenSegment(segs, targetCoord) ==
    LET b1 == bestSegment(segs, targetCoord, 1)
        b2 == IF b1 = 0 THEN bestSegment(segs, targetCoord, 2) ELSE b1
    IN  IF b2 = 0 THEN bestSegment(segs, targetCoord, 3) ELSE b2

\* Faulty variant: on equal distances the end of the segment is returned
findNearestNode_EndOnTie(graph, segs, targetCoord) ==
    LET best == ChosenSegment(segs, targetCoord)
    IN  IF best # 0
          THEN LET bestSeg == segs[best]
                   dStart == DistSq(targetCoord, bestSeg.start)
                   dEnd == DistSq(targetCoord, bestSeg.end)
               IN  IF dStart < dEnd THEN bestSeg.startId ELSE bestSeg.endId
          ELSE NearestKeyFrom(graph, targetCoord, 1, "null", Whole(0))

findNearestNode(graph, segs, targetCoord) ==
    LET best == ChosenSegment(segs, targetCoord)
    IN  IF best # 0
          THEN LET bestSeg == segs[best]
                   dStart == DistSq(targetCoord, bestSeg.start)
                   dEnd == DistSq(targetCoord, bestSeg.end)
               IN  IF dStart <= dEnd THEN bestSeg.startId ELSE bestSeg.endId
          ELSE NearestKeyFrom(graph, targetCoord, 1, "null", Whole(0))

-----------------------------------------------------------------------------
(* calculatePath *)

\* Arithmetic on times, NaN included
TAdd(a, b) == IF a = NaN \/ b = NaN THEN NaN ELSE a + b

TGe(a, b) == a # NaN /\ b # NaN /\ a >= b

TLt(a, b) == a # NaN /\ b # NaN /\ a < b

\* `${nodeId},${level}`
Key(nodeId, level) == nodeId \o "," \o ToString(level)

\* heuristic(nodeId), for the end node endId; an inherited (non-node) end has
\* undefined coordinates, and the distance to them is NaN
heuristic(graph, endId, nodeId) ==
    IF ~Truthy(graph, nodeId) THEN 0
    ELSE IF ~HasOwn(graph, nodeId) \/ ~HasOwn(graph, endId) THEN NaN
    ELSE LET n == graph.node[nodeId]
             e == graph.node[endId]
         IN  EdgeCost(calculateDistance(<<n.x, n.z>>, <<e.x, e.z>>), HEURISTIC_SPEED)

\* Faulty variant: only the level of the first outgoing edge starts the search
DistinctLevels_FirstOnly(edges, k, acc) ==
    IF Len(edges) = 0 THEN <<>> ELSE <<edges[1].level>>

\* [...new Set(edges.map(e => e.level))]: distinct levels, first occurrence first
RECURSIVE DistinctLevels(_, _, _)
DistinctLevels(edges, k, acc) ==
    IF k > Len(edges) THEN acc
    ELSE IF \E j \in 1..Len(acc) : acc[j] = edges[k].level
      THEN DistinctLevels(edges, k + 1, acc)
    ELSE DistinctLevels(edges, k + 1, Append(acc, edges[k].level))

\* openSet.sort((a, b) => a.fScore - b.fScore): stable; a NaN difference counts as 0
InsertByF(sorted, x) ==
    LET later == {i \in 1..Len(sorted) : TLt(x.fScore, sorted[i].fScore)}
        p == IF later = {} THEN Len(sorted) + 1
             ELSE CHOOSE i \in later : \A j \in later : i <= j
    IN  SubSeq(sorted, 1, p - 1) \o <<x>> \o SubSeq(sorted, p, Len(sorted))

\* (the sorted front part is computed once, as the one element of a set)
RECURSIVE SortPrefix(_, _)
SortPrefix(s, n) ==
    IF n = 0 THEN <<>>
    ELSE CHOOSE out \in {InsertByF(front, s[n]) : front \in {SortPrefix(s, n - 1)}} : TRUE

SortByF(s) == SortPrefix(s, Len(s))

\* What the sort can leave in openSet.  The comparator answers NaN, which counts
\* as 0, when one of the two fScores is NaN; an entry with fScore NaN then equals
\* two entries that differ from each other, the comparator is no consistent
\* order and the outcome is implementation-defined: any arrangement.
MixedNaN(s) ==
    /\ \E i \in 1..Len(s) : s[i].fScore = NaN
    /\ \E i \in 1..Len(s) : \E j \in 1..Len(s) :
          s[i].fScore # NaN /\ s[j].fScore # NaN /\ s[i].fScore # s[j].fScore

\* Faulty variant: entries of equal fScore come out in any order
SortOutcomes_AnyTieOrder(s) ==
    {t \in {[i \in 1..Len(s) |-> s[p[i]]] : p \in Permutations(1..Len(s))} :
        \A i \in 1..(Len(t) - 1) : ~TLt(t[i + 1].fScore, t[i].fScore)}

SortOutcomes(s) ==
    IF MixedNaN(s)
      THEN {[i \in 1..Len(s) |-> s[p[i]]] : p \in Permutations(1..Len(s))}
    ELSE {SortByF(s)}

\* The start states pushed before the loop
RECURSIVE InitialOpenSet(_, _, _, _, _)
InitialOpenSet(graph, startId, endId, levels, k) ==
    IF k > Len(levels) THEN <<>>
    ELSE <<[nodeId |-> startId, level |-> levels[k], gScore |-> 0,
            fScore |-> heuristic(graph, endId, startId)]>>
         \o InitialOpenSet(graph, startId, endId, levels, k + 1)

\* The body of the for loop over node.edges, for one edge
RelaxEdge(st, graph, endId, seen, nodeId, level, g, edge) ==
    IF ~levelsCanConnect(level, edge.level) THEN st
    ELSE LET tentativeG == TAdd(g, edge.cost)
             edgeKey == Key(edge.toId, edge.level)
         IN  IF edgeKey \in seen THEN st
             ELSE IF edgeKey \in DOMAIN st.gScore /\ TGe(tentativeG, st.gScore[edgeKey])
               THEN st
             ELSE [cameFrom |-> (edgeKey :> [nodeId |-> nodeId, level |-> level])
                                    @@ st.cameFrom,
                   gScore |-> (edgeKey :> tentativeG) @@ st.gScore,
                   openSet |-> Append(st.openSet,
                       [nodeId |-> edge.toId, level |-> edge.level, gScore |-> tentativeG,
                        fScore |-> TAdd(tentativeG, heuristic(graph, endId, edge.toId))])]

RECURSIVE RelaxEdges(_, _, _, _, _, _, _, _, _)
RelaxEdges(st, graph, endId, seen, nodeId, level, g, edges, k) ==
    IF k > Len(edges) THEN st
    ELSE CHOOSE out \in
             {RelaxEdges(next, graph, endId, seen, nodeId, level, g, edges, k + 1) :
                 next \in {RelaxEdge(st, graph, endId, seen, nodeId, level, g, edges[k])}} :
             TRUE

\* The while (cur) loop: coordinates from cur back to a state without predecessor
RECURSIVE WalkBack(_, _, _)
WalkBack(graph, cf, cur) ==
    LET node == graph.node[cur.nodeId]
        k == Key(cur.nodeId, cur.level)
    IN  <<<<node.x, node.z>>>>
        \o (IF k \in DOMAIN cf
              THEN CHOOSE back \in {WalkBack(graph, cf, prev) : prev \in {cf[k]}} : TRUE
            ELSE <<>>)

Reverse(s) == [i \in 1..Len(s) |-> s[Len(s) + 1 - i]]

RECURSIVE PathLength(_, _)
PathLength(path, i) ==
    IF i > Len(path) - 1 THEN 0
    ELSE calculateDistance(path[i], path[i + 1]) + PathLength(path, i + 1)

-----------------------------------------------------------------------------
(* Return values *)

NoReturn ==
    [fn |-> "none", threw |-> FALSE, path |-> <<>>, totalCost |-> 0, distance |-> 0,
     message |-> "", query |-> <<0, 0>>, id |-> ""]

RouteResult(path, totalCost, distance, message) ==
    [NoReturn EXCEPT !.fn = "calculatePath", !.path = path, !.totalCost = totalCost,
                     !.distance = distance, !.message = message]

\* startEdges.map on undefined: TypeError
RouteThrows == [NoReturn EXCEPT !.fn = "calculatePath", !.threw = TRUE]

NearestResult(query, id) ==
    [NoReturn EXCEPT !.fn = "findNearestNode", !.query = query, !.id = id]

-----------------------------------------------------------------------------
(* Inputs: feature catalogues, query points, node ids *)

NoProps ==
    [Path |-> Undefined, oneway |-> Undefined, Level |-> Undefined, level |-> Undefined,
     speed |-> Undefined, Speed |-> Undefined, Type |-> Undefined, type |-> Undefined]

LineString(coords, props) ==
    [kind |-> "object", hasGeometry |-> TRUE, type |-> "LineString",
     coordinates |-> coords, properties |-> props]

\* Corners of a 30 x 40 block rectangle (diagonal 50), in half blocks
PA == <<0, 0>>
PB == <<60, 0>>
PC == <<60, 80>>
PD == <<0, 80>>

\* Roads for routing: three levels, the three direction codes, a fast road
RouteCatalogue ==
    << LineString(<<PA, PB>>, [NoProps EXCEPT !.Path = Str("B"), !.Level = Num(0)]),
       LineString(<<PB, PC>>, [NoProps EXCEPT !.Path = Str("B"), !.Level = Str("1"),
                                              !.speed = Num(50)]),
       LineString(<<PC, PD>>, [NoProps EXCEPT !.oneway = Str("B"), !.level = Num(2)]),
       LineString(<<PB, PC>>, [NoProps EXCEPT !.Path = Str("B"), !.Level = Num(2)]),
       LineString(<<PA, PB>>, [NoProps EXCEPT !.Path = Str("BE"), !.Level = Num(0)]),
       LineString(<<PD, PC>>, [NoProps EXCEPT !.Path = Str("EB"), !.Level = Num(0)]),
       LineString(<<PC, PA, PB>>, [NoProps EXCEPT !.Path = Str("B")]),
       LineString(<<PB, PC>>, [NoProps EXCEPT !.Path = Str("B"), !.Speed = Num(160)]) >>

\* Roads along one line that meet between blocks: a road that ends half a block
\* short of a node, a piece shorter than a block, one-way roads, an upper level
PE == <<120, 0>>

JunctionCatalogue ==
    << LineString(<<PA, PB>>, [NoProps EXCEPT !.Path = Str("B")]),
       LineString(<<<<59, 0>>, PE>>, [NoProps EXCEPT !.Path = Str("B")]),
       LineString(<<<<61, 0>>, PE>>, [NoProps EXCEPT !.Path = Str("B"), !.Level = Num(1)]),
       LineString(<<<<-1, 0>>, PA>>, [NoProps EXCEPT !.Path = Str("B")]),
       LineString(<<PE, <<59, 0>>>>, [NoProps EXCEPT !.Path = Str("BE"), !.Level = Num(2)]),
       LineString(<<<<1, 0>>, <<60, 0>>>>, [NoProps EXCEPT !.Path = Str("x")]),
       LineString(<<<<119, 0>>, <<180, 0>>>>, [NoProps EXCEPT !.Path = Str("EB")]) >>

\* One-way roads with loops in them: a repeated coordinate (an edge of cost 0
\* from a node to itself), a road back to the start through a third node (a
\* cycle), and a second road between the same nodes (parallel edges) whose speed
\* is no number
LoopCatalogue ==
    << LineString(<<PA, PB, PB>>, [NoProps EXCEPT !.Path = Str("BE")]),
       LineString(<<PB, PE, PA>>, [NoProps EXCEPT !.Path = Str("BE")]),
       LineString(<<PA, PB>>, [NoProps EXCEPT !.Path = Str("BE"), !.speed = Str("fast"),
                                              !.Level = Num(1)]) >>

\* Roads for snapping: an ordinary street, a ramp, a highway, a diagonal lane
\* and a walkway
SnapCatalogue ==
    << LineString(<<PA, PB>>, [NoProps EXCEPT !.Type = Str("Street")]),
       LineString(<<<<0, 20>>, <<60, 20>>>>, [NoProps EXCEPT !.Type = Str("Ramp")]),
       LineString(<<<<0, 40>>, <<60, 40>>>>, [NoProps EXCEPT !.type = Str("highway")]),
       LineString(<<PA, PC>>, NoProps),
       LineString(<<<<0, 10>>, <<60, 10>>>>, [NoProps EXCEPT !.Type = Str("Walkway")]),
       LineString(<<<<0, 12>>, <<80, 12>>>>, [NoProps EXCEPT !.type = Str("WALKWAYS")]) >>

\* Roads for repeated queries, all of speed 80: two two-way routes of equal
\* cost from PA to PC, a two-way road on level 2 and a one-way road
QueryCatalogue ==
    << LineString(<<PA, PB, PC>>, [NoProps EXCEPT !.Path = Str("B"), !.speed = Num(80)]),
       LineString(<<PA, PD, PC>>, [NoProps EXCEPT !.Path = Str("B"), !.speed = Num(80)]),
       LineString(<<PB, PC>>, [NoProps EXCEPT !.Path = Str("B"), !.Level = Num(2),
                                              !.speed = Num(80)]),
       LineString(<<PB, PA>>, [NoProps EXCEPT !.Path = Str("BE"), !.speed = Num(80)]) >>

\* Array elements that are no road features
NotAnObject(kind) ==
    [kind |-> kind, hasGeometry |-> FALSE, type |-> "", coordinates |-> <<>>,
     properties |-> NoProps]

NoGeometry == [NotAnObject("object") EXCEPT !.properties = [NoProps EXCEPT !.Path = Str("B")]]

Geometry(type, coords) ==
    [kind |-> "object", hasGeometry |-> TRUE, type |-> type, coordinates |-> coords,
     properties |-> NoProps]

\* Features for building: a repeated coordinate, and speeds that are zero,
\* negative, missing, not a number, and spelled as a string
BuildCatalogue ==
    << LineString(<<PA, PA, PB>>, [NoProps EXCEPT !.Path = Str("B"), !.speed = Num(50)]),
       LineString(<<PA, PB>>, [NoProps EXCEPT !.Path = Str("B"), !.speed = Num(0)]),
       LineString(<<PB, PC>>, [NoProps EXCEPT !.Path = Str("EB"), !.Speed = Str("-5")]),
       LineString(<<PC, PD>>, [NoProps EXCEPT !.Path = Str("BE"), !.Level = Num(-1)]),
       LineString(<<PA, PD>>, [NoProps EXCEPT !.Path = Str("B"), !.speed = Str("fast")]),
       LineString(<<PA, PB>>, [NoProps EXCEPT !.Path = Str("be"), !.speed = Str("40")]),
       LineString(<<PB, PC>>, [NoProps EXCEPT !.Path = Str("B"), !.speed = Num(50)]),
       LineString(<<PD, PA>>, [NoProps EXCEPT !.Path = Str("B"), !.Speed = Num(160)]) >>

\* Features for attribute parsing: direction codes, levels and road classes in
\* their spellings, a coordinate half a block off its node, a line of two
\* segments and a walkway
AttributeCatalogue ==
    << LineString(<<PB, PC>>, [NoProps EXCEPT !.Path = Str("x"), !.speed = Num(50),
                                              !.Type = Str("Street")]),
       LineString(<<PD, PA>>, [NoProps EXCEPT !.Path = JsNull, !.Level = JsNull]),
       LineString(<<PC, PA>>, [NoProps EXCEPT !.Path = Str("both"), !.Type = Str("Walkway")]),
       LineString(<<PB, PD>>, [NoProps EXCEPT !.oneway = Str("eb"), !.Level = Str("abc"),
                                              !.type = Str("RAMP")]),
       LineString(<<PA, PC>>, [NoProps EXCEPT !.level = Num(2)]),
       LineString(<<<<-1, 0>>, PB>>, [NoProps EXCEPT !.Path = Str("BE"), !.Level = Str("-1")]),
       LineString(<<PC, PD, PA>>, [NoProps EXCEPT !.oneway = Str("B")]),
       LineString(<<PB, PC>>, [NoProps EXCEPT !.Path = Str("B"), !.Level = Str("NA"),
                                              !.level = Num(3)]) >>

\* An array that holds non-features among its road features
MalformedCatalogue ==
    << LineString(<<PA, PB>>, [NoProps EXCEPT !.Path = Str("B")]),
       NotAnObject("null"),
       NotAnObject("number"),
       NoGeometry,
       LineString(<<PB, PC>>, [NoProps EXCEPT !.Path = Str("BE"), !.Level = Num(1)]),
       Geometry("Point", PA),
       Geometry("LineString", <<PC>>),
       LineString(<<PC, PD, PA>>, [NoProps EXCEPT !.Path = Str("EB")]) >>

\* The sub-lists of a catalogue (catalogue order kept) of at most MaxFeatures features
RECURSIVE Pick(_, _, _)
Pick(cat, idx, k) ==
    IF k > Len(cat) THEN <<>>
    ELSE (IF k \in idx THEN <<cat[k]>> ELSE <<>>) \o Pick(cat, idx, k + 1)

FeatureLists(cat) ==
    {[isArray |-> TRUE, items |-> Pick(cat, idx, 1)] :
        idx \in {x \in SUBSET (1..Len(cat)) : Cardinality(x) <= MaxFeatures}}

\* No call is remembered
NoCall == [startId |-> "", endId |-> "", result |-> <<>>]

\* What is there before the first buildRoadGraph call; also a non-array argument
NoInput == [isArray |-> FALSE, items |-> <<>>]

\* Click positions handed to findNearestNode, in half blocks
QueryPoints ==
    {<<20, 16>>, <<20, 90>>, <<20, 60>>, <<130, 0>>, <<200, 200>>, <<50, 30>>,
     <<40, 20>>, <<30, 6>>}

\* Ids handed to calculatePath: the nodes, null, and an inherited property name
SetOf(seq) == {seq[i] : i \in 1..Len(seq)}

CallIds == SetOf(roadGraph.keys) \cup {"null", "constructor"}

\* Ids handed to calculatePath: the nodes and null
NodeCallIds == SetOf(roadGraph.keys) \cup {"null"}

-----------------------------------------------------------------------------
(* Actions *)

Init ==
    /\ features = NoInput
    /\ roadGraph = EmptyObject
    /\ roadSegments = <<>>
    /\ pc = "idle"
    /\ startNodeId = ""
    /\ endNodeId = ""
    /\ openSet = <<>>
    /\ gScore = <<>>
    /\ cameFrom = <<>>
    /\ visited = {}
    /\ ret = NoReturn
    /\ lastBuild = "none"
    /\ tempId = ""
    /\ pathSoFar = <<>>
    /\ pathStartCoordinates = NoPoint
    /\ pathEndCoordinates = NoPoint
    /\ pathLayerSource = <<>>
    /\ inHandler = FALSE
    /\ earlier = NoCall

locals == <<startNodeId, endNodeId, openSet, gScore, cameFrom, visited>>

\* Faulty variant: the two globals are not reset, the new features are added
BuildRoadGraph_NoReset(input) ==
    /\ pc = "idle"
    /\ LET built == IF ~input.isArray THEN [graph |-> roadGraph, segments |-> roadSegments]
                    ELSE BuildFeatures([graph |-> roadGraph, segments |-> roadSegments],
                                       input.items, 1)
       IN  /\ roadGraph' = built.graph
           /\ roadSegments' = built.segments
    /\ features' = input
    /\ ret' = NoReturn
    /\ lastBuild' = IF roadGraph.keys = <<>> /\ roadSegments = <<>> THEN "first"
                    ELSE IF input = features THEN "same" ELSE "other"
    /\ UNCHANGED <<pc, locals, outside>>

\* buildRoadGraph(features)
BuildRoadGraph(input) ==
    /\ pc = "idle"
    /\ LET built == buildRoadGraph(input)
       IN  /\ roadGraph' = built.graph
           /\ roadSegments' = built.segments
    /\ features' = input
    /\ ret' = NoReturn
    /\ lastBuild' = IF roadGraph.keys = <<>> /\ roadSegments = <<>> THEN "first"
                    ELSE IF input = features THEN "same" ELSE "other"
    /\ UNCHANGED <<pc, locals, outside>>

\* Faulty variant: the segment list is consumed by the query
FindNearestNode_ShiftsSegments(targetCoord) ==
    /\ pc = "idle"
    /\ ret' = NearestResult(targetCoord, findNearestNode(roadGraph, roadSegments, targetCoord))
    /\ pc' = "done"
    /\ roadSegments' = IF roadSegments = <<>> THEN <<>> ELSE Tail(roadSegments)
    /\ UNCHANGED <<features, roadGraph, locals, lastBuild, outside>>

\* findNearestNode(targetCoord)
FindNearestNode(targetCoord) ==
    /\ pc = "idle"
    /\ ret' = NearestResult(targetCoord, findNearestNode(roadGraph, roadSegments, targetCoord))
    /\ pc' = "done"
    /\ UNCHANGED <<features, roadGraph, roadSegments, locals, lastBuild, outside>>

\* calculatePath(startId, endId), up to the while loop
CalculatePath(startId, endId) ==
    /\ pc = "idle"
    /\ startNodeId' = startId
    /\ endNodeId' = endId
    /\ UNCHANGED <<features, roadGraph, roadSegments, lastBuild, outside>>
    /\ IF ~Truthy(roadGraph, startId) \/ ~Truthy(roadGraph, endId)
         THEN /\ ret' = RouteResult(<<>>, 0, 0, "Start or end node not found.")
              /\ pc' = "done"
              /\ UNCHANGED <<openSet, gScore, cameFrom, visited>>
       ELSE IF ~HasOwn(roadGraph, startId)
         THEN /\ ret' = RouteThrows
              /\ pc' = "done"
              /\ UNCHANGED <<openSet, gScore, cameFrom, visited>>
       ELSE LET startEdges == roadGraph.node[startId].edges
                startLevels == DistinctLevels(startEdges, 1, <<>>)
            IN  IF Len(startLevels) = 0
                  THEN /\ ret' = RouteResult(<<>>, 0, 0, "Start node has no outgoing edges.")
                       /\ pc' = "done"
                       /\ UNCHANGED <<openSet, gScore, cameFrom, visited>>
                ELSE /\ openSet' = InitialOpenSet(roadGraph, startId, endId, startLevels, 1)
                     /\ gScore' = [k \in {Key(startId, startLevels[i]) :
                                            i \in 1..Len(startLevels)} |-> 0]
                     /\ cameFrom' = <<>>
                     /\ visited' = {}
                     /\ ret' = NoReturn
                     /\ pc' = "search"

\* Faulty variant: no closed set is kept, every popped state is expanded
SearchIteration_NoClosedSet ==
    /\ pc = "search"
    /\ openSet # <<>>
    /\ UNCHANGED <<features, roadGraph, roadSegments, startNodeId, endNodeId, lastBuild, outside>>
    /\ \E sorted \in SortOutcomes(openSet) :
       LET current == sorted[1]
           rest == SubSeq(sorted, 2, Len(sorted))
       IN  IF current.nodeId = endNodeId
             THEN \E path \in {Reverse(WalkBack(roadGraph, cameFrom, current))} :
                      /\ ret' = RouteResult(path, current.gScore, PathLength(path, 1),
                                            "Route found.")
                      /\ pc' = "done"
                      /\ openSet' = rest
                      /\ UNCHANGED <<gScore, cameFrom, visited>>
           ELSE \E st \in {RelaxEdges([openSet |-> rest, gScore |-> gScore,
                                        cameFrom |-> cameFrom],
                                       roadGraph, endNodeId, visited,
                                       current.nodeId, current.level, current.gScore,
                                       roadGraph.node[current.nodeId].edges, 1)} :
                    /\ openSet' = st.openSet
                    /\ gScore' = st.gScore
                    /\ cameFrom' = st.cameFrom
                    /\ UNCHANGED <<visited, ret, pc>>

\* One iteration of while (openSet.length > 0)
SearchIteration ==
    /\ pc = "search"
    /\ openSet # <<>>
    /\ UNCHANGED <<features, roadGraph, roadSegments, startNodeId, endNodeId, lastBuild, outside>>
    /\ \E sorted \in SortOutcomes(openSet) :
       LET current == sorted[1]
           rest == SubSeq(sorted, 2, Len(sorted))
           key == Key(current.nodeId, current.level)
       IN  IF key \in visited
             THEN /\ openSet' = rest
                  /\ UNCHANGED <<gScore, cameFrom, visited, ret, pc>>
           ELSE IF current.nodeId = endNodeId
             THEN \E path \in {Reverse(WalkBack(roadGraph, cameFrom, current))} :
                      /\ ret' = RouteResult(path, current.gScore, PathLength(path, 1),
                                            "Route found.")
                      /\ pc' = "done"
                      /\ openSet' = rest
                      /\ visited' = visited \cup {key}
                      /\ UNCHANGED <<gScore, cameFrom>>
           ELSE \E st \in {RelaxEdges([openSet |-> rest, gScore |-> gScore,
                                        cameFrom |-> cameFrom],
                                       roadGraph, endNodeId, visited \cup {key},
                                       current.nodeId, current.level, current.gScore,
                                       roadGraph.node[current.nodeId].edges, 1)} :
                    /\ openSet' = st.openSet
                    /\ gScore' = st.gScore
                    /\ cameFrom' = st.cameFrom
                    /\ visited' = visited \cup {key}
                    /\ UNCHANGED <<ret, pc>>

\* Faulty variant: the final return carries the message of the first return
SearchFails_WrongMessage ==
    /\ pc = "search"
    /\ openSet = <<>>
    /\ ret' = RouteResult(<<>>, 0, 0, "Start or end node not found.")
    /\ pc' = "done"
    /\ UNCHANGED <<features, roadGraph, roadSegments, locals, lastBuild, outside>>

\* The loop ends with the frontier empty
SearchFails ==
    /\ pc = "search"
    /\ openSet = <<>>
    /\ ret' = RouteResult(<<>>, 0, 0, "No path found.")
    /\ pc' = "done"
    /\ UNCHANGED <<features, roadGraph, roadSegments, locals, lastBuild, outside>>

\* The caller has taken the result; the locals are gone
Return ==
    /\ pc = "done"
    /\ pc' = "idle"
    /\ ret' = NoReturn
    /\ startNodeId' = ""
    /\ endNodeId' = ""
    /\ openSet' = <<>>
    /\ gScore' = <<>>
    /\ cameFrom' = <<>>
    /\ visited' = {}
    /\ UNCHANGED <<features, roadGraph, roadSegments, lastBuild, outside>>

\* The caller has taken the result of calculatePath and keeps it
ReturnAndKeep ==
    /\ pc = "done"
    /\ ret.fn = "calculatePath"
    /\ earlier = NoCall
    /\ earlier' = [startId |-> startNodeId, endId |-> endNodeId, result |-> ret]
    /\ pc' = "idle"
    /\ ret' = NoReturn
    /\ startNodeId' = ""
    /\ endNodeId' = ""
    /\ openSet' = <<>>
    /\ gScore' = <<>>
    /\ cameFrom' = <<>>
    /\ visited' = {}
    /\ UNCHANGED <<features, roadGraph, roadSegments, lastBuild, reconstruction, page>>

\* Routing over the road catalogue
Next ==
    \/ \E input \in FeatureLists(RouteCatalogue) \cup {NoInput} : BuildRoadGraph(input)
    \/ \E startId \in CallIds : \E endId \in CallIds : CalculatePath(startId, endId)
    \/ SearchIteration
    \/ SearchFails
    \/ Return

Spec == Init /\ [][Next]_vars

\* Snapping over the snap catalogue
NextLocate ==
    \/ \E input \in FeatureLists(SnapCatalogue) \cup {NoInput} : BuildRoadGraph(input)
    \/ \E targetCoord \in QueryPoints : FindNearestNode(targetCoord)
    \/ Return

SpecLocate == Init /\ [][NextLocate]_vars

\* Routing over the loop catalogue; calculatePath is one synchronous call, so
\* its loop keeps running until it returns
NextLoops ==
    \/ \E input \in FeatureLists(LoopCatalogue) \cup {NoInput} : BuildRoadGraph(input)
    \/ \E startId \in CallIds : \E endId \in CallIds : CalculatePath(startId, endId)
    \/ SearchIteration
    \/ SearchFails
    \/ Return

SpecLoops ==
    Init /\ [][NextLoops]_vars /\ WF_vars(SearchIteration) /\ WF_vars(SearchFails)

\* Routing over the junction catalogue
NextJunctions ==
    \/ \E input \in FeatureLists(JunctionCatalogue) \cup {NoInput} : BuildRoadGraph(input)
    \/ \E startId \in CallIds : \E endId \in CallIds : CalculatePath(startId, endId)
    \/ SearchIteration
    \/ SearchFails
    \/ Return

SpecJunctions == Init /\ [][NextJunctions]_vars

\* Queries one after another against one built graph: the graph is built
\* before the first result is kept
NextQueries ==
    \/ /\ earlier = NoCall
       /\ \E input \in FeatureLists(QueryCatalogue) : BuildRoadGraph(input)
    \/ \E targetCoord \in QueryPoints : FindNearestNode(targetCoord)
    \/ \E startId \in CallIds : \E endId \in CallIds : CalculatePath(startId, endId)
    \/ SearchIteration
    \/ SearchFails
    \/ ReturnAndKeep
    \/ Return

SpecQueries == Init /\ [][NextQueries]_vars

\* Building and rebuilding over the build catalogue
NextBuild ==
    \E input \in FeatureLists(BuildCatalogue) \cup {NoInput} : BuildRoadGraph(input)

SpecBuild == Init /\ [][NextBuild]_vars

\* Building over the attribute catalogue
NextAttributes ==
    \E input \in FeatureLists(AttributeCatalogue) \cup {NoInput} : BuildRoadGraph(input)

SpecAttributes == Init /\ [][NextAttributes]_vars

\* Building from arrays with non-features in them
NextMalformed ==
    \E input \in FeatureLists(MalformedCatalogue) \cup {NoInput} : BuildRoadGraph(input)

SpecMalformed == Init /\ [][NextMalformed]_vars

-----------------------------------------------------------------------------
(* The node-keyed A* revision, src/pathfinding.js (first copy, lines 1-224).  *)
(* Its graph has neighbors instead of edges and stores rounded coordinates;   *)
(* a cost is a distance, held in half blocks.                                 *)

\* How long a backward walk is followed in the model.  In the code the walk has
\* no limit: a walk that does not end keeps pushing coordinates.
MaxWalk == 6

\* { x: Math.round(c[0]), z: Math.round(c[1]), neighbors: [] }, in half blocks
Pathfinding_Node(c) ==
    [x |-> 2 * MathRound(c[1]), z |-> 2 * MathRound(c[2]), neighbors |-> <<>>]

\* if (!roadGraph[id]) roadGraph[id] = {...}
Pathfinding_PutNode(graph, id, c) ==
    IF Truthy(graph, id) THEN graph
    ELSE [keys |-> Append(graph.keys, id), node |-> graph.node @@ (id :> Pathfinding_Node(c))]

\* neighbors.some(n => n.id === toId) / neighbors.push
Pathfinding_AddNeighbor(graph, fromId, toId, cost, dist) ==
    IF \E i \in 1..Len(graph.node[fromId].neighbors) : graph.node[fromId].neighbors[i].id = toId
      THEN graph
    ELSE [graph EXCEPT !.node[fromId].neighbors =
              Append(@, [id |-> toId, cost |-> cost, distance |-> dist])]

\* The body of the for loop over the coordinate pairs of a LineString
Pathfinding_BuildSegment(graph, coords, i) ==
    LET startCoord == coords[i]
        endCoord == coords[i + 1]
        startId == NodeId(startCoord)
        endId == NodeId(endCoord)
        dist == calculateDistance(startCoord, endCoord)
        cost == dist
        g2 == Pathfinding_PutNode(Pathfinding_PutNode(graph, startId, startCoord),
                                  endId, endCoord)
    IN  IF startId # endId
          THEN Pathfinding_AddNeighbor(
                   Pathfinding_AddNeighbor(g2, startId, endId, cost, dist),
                   endId, startId, cost, dist)
        ELSE g2

RECURSIVE Pathfinding_BuildSegments(_, _, _)
Pathfinding_BuildSegments(graph, coords, i) ==
    IF i > Len(coords) - 1 THEN graph
    ELSE Pathfinding_BuildSegments(Pathfinding_BuildSegment(graph, coords, i), coords, i + 1)

\* features.forEach: only LineString geometries are read
RECURSIVE Pathfinding_BuildFeatures(_, _, _)
Pathfinding_BuildFeatures(graph, fs, k) ==
    IF k > Len(fs) THEN graph
    ELSE Pathfinding_BuildFeatures(
             IF fs[k].type = "LineString"
               THEN Pathfinding_BuildSegments(graph, fs[k].coordinates, 1)
             ELSE graph,
             fs, k + 1)

Pathfinding_buildRoadGraph(input) == Pathfinding_BuildFeatures(EmptyObject, input.items, 1)

\* tentativeGScore < (gScore[neighborId] || Infinity): an unknown score and a
\* score of 0 both count as Infinity
BelowKnownScore(tentativeGScore, scores, neighborId) ==
    IF neighborId \in DOMAIN scores /\ scores[neighborId] # 0
      THEN tentativeGScore < scores[neighborId]
    ELSE TRUE

\* The body of the for loop over currentNode.neighbors.  (fScore[neighborId] is
\* read only in the statement after the one that writes it.)
Pathfinding_Relax(st, graph, endCoord, currentId, neighbor) ==
    LET tentativeGScore == st.gScore[currentId] + neighbor.cost
        neighborId == neighbor.id
        n == graph.node[neighborId]
        f == tentativeGScore + calculateDistance(<<n.x, n.z>>, endCoord)
        found == {i \in 1..Len(st.openSet) : st.openSet[i].id = neighborId}
    IN  IF BelowKnownScore(tentativeGScore, st.gScore, neighborId)
          THEN [cameFrom |-> (neighborId :> currentId) @@ st.cameFrom,
                gScore |-> (neighborId :> tentativeGScore) @@ st.gScore,
                openSet |-> IF found = {}
                              THEN Append(st.openSet, [id |-> neighborId, fScore |-> f])
                            ELSE [st.openSet EXCEPT
                                    ![CHOOSE i \in found : \A j \in found : i <= j].fScore = f]]
        ELSE st

RECURSIVE Pathfinding_RelaxAll(_, _, _, _, _, _)
Pathfinding_RelaxAll(st, graph, endCoord, currentId, neighbors, k) ==
    IF k > Len(neighbors) THEN st
    ELSE CHOOSE out \in
             {Pathfinding_RelaxAll(next, graph, endCoord, currentId, neighbors, k + 1) :
                 next \in {Pathfinding_Relax(st, graph, endCoord, currentId, neighbors[k])}} :
             TRUE

\* Line strings along one street, one of them starting half a block before the
\* node it joins, and a point feature
PathfindingCatalogue ==
    << LineString(<<PA, PB>>, NoProps),
       LineString(<<<<59, 0>>, PE>>, NoProps),
       LineString(<<PE, <<180, 0>>>>, NoProps),
       Geometry("Point", <<PA>>) >>

\* buildRoadGraph(features)
Pathfinding_BuildRoadGraph(input) ==
    /\ pc = "idle"
    /\ roadGraph' = Pathfinding_buildRoadGraph(input)
    /\ features' = input
    /\ ret' = NoReturn
    /\ UNCHANGED <<roadSegments, pc, locals, lastBuild, outside>>

\* calculatePath(startNodeId, endNodeId), up to the while loop
Pathfinding_CalculatePath(startId, endId) ==
    /\ pc = "idle"
    /\ startNodeId' = startId
    /\ endNodeId' = endId
    /\ UNCHANGED <<features, roadGraph, roadSegments, visited, lastBuild, outside>>
    /\ IF ~Truthy(roadGraph, startId) \/ ~Truthy(roadGraph, endId)
         THEN /\ ret' = RouteResult(<<>>, 0, 0,
                                    "Error: Start or End point is not a valid graph node.")
              /\ pc' = "done"
              /\ UNCHANGED <<openSet, gScore, cameFrom>>
       ELSE /\ openSet' = <<[id |-> startId, fScore |-> 0]>>
            /\ gScore' = (startId :> 0)
            /\ cameFrom' = <<>>
            /\ ret' = NoReturn
            /\ pc' = "astar"

\* One iteration of while (openSet.length > 0); finding the end node starts the
\* backward walk
Pathfinding_SearchIteration ==
    /\ pc = "astar"
    /\ openSet # <<>>
    /\ UNCHANGED <<features, roadGraph, roadSegments, startNodeId, endNodeId, visited,
                   ret, lastBuild, earlier, page>>
    /\ \E sorted \in {SortByF(openSet)} :
       LET currentId == sorted[1].id
           rest == SubSeq(sorted, 2, Len(sorted))
           e == roadGraph.node[endNodeId]
       IN  IF currentId = endNodeId
             THEN /\ pc' = "walk"
                  /\ tempId' = endNodeId
                  /\ pathSoFar' = <<>>
                  /\ openSet' = rest
                  /\ UNCHANGED <<gScore, cameFrom>>
           ELSE \E st \in {Pathfinding_RelaxAll([openSet |-> rest, gScore |-> gScore,
                                                  cameFrom |-> cameFrom],
                                                 roadGraph, <<e.x, e.z>>, currentId,
                                                 roadGraph.node[currentId].neighbors, 1)} :
                    /\ openSet' = st.openSet
                    /\ gScore' = st.gScore
                    /\ cameFrom' = st.cameFrom
                    /\ UNCHANGED <<pc, reconstruction>>

\* One iteration of while (tempId)
Pathfinding_WalkStep ==
    /\ pc = "walk"
    /\ tempId # ""
    /\ Len(pathSoFar) < MaxWalk
    /\ pathSoFar' = Append(pathSoFar, <<roadGraph.node[tempId].x, roadGraph.node[tempId].z>>)
    /\ tempId' = IF tempId \in DOMAIN cameFrom THEN cameFrom[tempId] ELSE ""
    /\ UNCHANGED <<features, roadGraph, roadSegments, pc, locals, ret, lastBuild, earlier,
                   page>>

\* The walk has ended: path.reverse(), totalDistance, return
Pathfinding_WalkEnds ==
    /\ pc = "walk"
    /\ tempId = ""
    /\ \E finalPath \in {Reverse(pathSoFar)} :
          ret' = RouteResult(finalPath, gScore[endNodeId], PathLength(finalPath, 1),
                             "Route found.")
    /\ pc' = "done"
    /\ UNCHANGED <<features, roadGraph, roadSegments, locals, lastBuild, outside>>

\* The loop ends with the open set empty
Pathfinding_SearchFails ==
    /\ pc = "astar"
    /\ openSet = <<>>
    /\ ret' = RouteResult(<<>>, 0, 0,
                          "Error: Could not find a path between the selected points.")
    /\ pc' = "done"
    /\ UNCHANGED <<features, roadGraph, roadSegments, locals, lastBuild, outside>>

\* The caller has taken the result; the locals are gone
Pathfinding_Return ==
    /\ pc = "done"
    /\ pc' = "idle"
    /\ ret' = NoReturn
    /\ startNodeId' = ""
    /\ endNodeId' = ""
    /\ openSet' = <<>>
    /\ gScore' = <<>>
    /\ cameFrom' = <<>>
    /\ tempId' = ""
    /\ pathSoFar' = <<>>
    /\ UNCHANGED <<features, roadGraph, roadSegments, visited, lastBuild, earlier, page>>

NextPathfinding ==
    \/ \E input \in FeatureLists(PathfindingCatalogue) : Pathfinding_BuildRoadGraph(input)
    \/ \E startId \in NodeCallIds : \E endId \in NodeCallIds :
          Pathfinding_CalculatePath(startId, endId)
    \/ Pathfinding_SearchIteration
    \/ Pathfinding_WalkStep
    \/ Pathfinding_WalkEnds
    \/ Pathfinding_SearchFails
    \/ Pathfinding_Return

\* calculatePath is one synchronous call: its loops keep running
SpecPathfinding ==
    /\ Init
    /\ [][NextPathfinding]_vars
    /\ WF_vars(Pathfinding_SearchIteration)
    /\ WF_vars(Pathfinding_SearchFails)
    /\ WF_vars(Pathfinding_WalkStep)
    /\ WF_vars(Pathfinding_WalkEnds)

-----------------------------------------------------------------------------
(* The Dijkstra revision, src/unnamed/part_002.  Its graph maps a node id to  *)
(* the object of its neighbors, { neighborId: cost }; only a node that an     *)
(* edge leaves is a key of the graph.  An id is the unrounded coordinates.    *)

\* The values Infinity and undefined of a cost
Infinity == -2
NoCost == -3

\* Number.prototype.toString of a coordinate given in half blocks
BlockString(h) ==
    LET a == IF h < 0 THEN 0 - h ELSE h
    IN  (IF h < 0 THEN "-" ELSE "")
            \o ToString(a \div 2) \o (IF a % 2 = 1 THEN ".5" ELSE "")

\* startCoord.join(',')
Dijkstra_NodeId(c) == BlockString(c[1]) \o "," \o BlockString(c[2])

\* !speed, speed <= 0, distance / speed: a string is converted to a number
Dijkstra_calculateCost(distance, speed) ==
    IF speed.t \in {"undefined", "null"} \/ speed = Num(0) \/ speed = Str("")
      THEN Infinity
    ELSE IF ~ParsesAsFloat(speed) THEN NaN
    ELSE IF ParseFloat(speed) <= 0 THEN Infinity
    ELSE EdgeCost(distance, ParseFloat(speed))

\* attributes.oneway ? String(attributes.oneway).toLowerCase() : 'both'
Dijkstra_oneway(attributes) ==
    IF attributes.oneway.t \in {"undefined", "null"} \/ attributes.oneway = Num(0)
            \/ attributes.oneway = Str("")
      THEN "both"
    ELSE ToLowerCase(JsToString(attributes.oneway))

\* if (!roadGraph[fromId]) roadGraph[fromId] = {}; roadGraph[fromId][toId] = cost
Dijkstra_PutEdge(graph, fromId, toId, cost) ==
    LET g2 == IF fromId \in DOMAIN graph.node THEN graph
              ELSE [keys |-> Append(graph.keys, fromId),
                    node |-> graph.node @@ (fromId :> [keys |-> <<>>, cost |-> <<>>])]
        nb == g2.node[fromId]
    IN  [g2 EXCEPT !.node[fromId] =
            [keys |-> IF toId \in DOMAIN nb.cost THEN nb.keys ELSE Append(nb.keys, toId),
             cost |-> (toId :> cost) @@ nb.cost]]

\* The body of the for loop over the coordinate pairs of a LineString
Dijkstra_BuildSegment(graph, coordinates, i, speed, oneway) ==
    LET startCoord == coordinates[i]
        endCoord == coordinates[i + 1]
        startId == Dijkstra_NodeId(startCoord)
        endId == Dijkstra_NodeId(endCoord)
        segmentDistance == calculateDistance(startCoord, endCoord)
        segmentCost == Dijkstra_calculateCost(segmentDistance, speed)
        isForwardAllowed == oneway = "both" \/ oneway = "forward"
        isBackwardAllowed == oneway = "both" \/ oneway = "backward"
        g2 == IF isForwardAllowed /\ segmentCost # Infinity
                THEN Dijkstra_PutEdge(graph, startId, endId, segmentCost)
              ELSE graph
    IN  IF isBackwardAllowed /\ segmentCost # Infinity
          THEN Dijkstra_PutEdge(g2, endId, startId, segmentCost)
        ELSE g2

RECURSIVE Dijkstra_BuildSegments(_, _, _, _, _)
Dijkstra_BuildSegments(graph, coordinates, i, speed, oneway) ==
    IF i > Len(coordinates) - 1 THEN graph
    ELSE Dijkstra_BuildSegments(Dijkstra_BuildSegment(graph, coordinates, i, speed, oneway),
                                coordinates, i + 1, speed, oneway)

\* roadFeatures.forEach: only LineString geometries are read
RECURSIVE Dijkstra_BuildFeatures(_, _, _)
Dijkstra_BuildFeatures(graph, fs, k) ==
    IF k > Len(fs) THEN graph
    ELSE Dijkstra_BuildFeatures(
             IF fs[k].type = "LineString"
               THEN Dijkstra_BuildSegments(graph, fs[k].coordinates, 1,
                                           fs[k].properties.speed,
                                           Dijkstra_oneway(fs[k].properties))
             ELSE graph,
             fs, k + 1)

\* The keys are deleted, then the features are read
Dijkstra_buildRoadGraph(input) == Dijkstra_BuildFeatures(EmptyObject, input.items, 1)

\* a + b of two costs
Dijkstra_Plus(a, b) ==
    IF a = NaN \/ b = NaN \/ a = NoCost \/ b = NoCost THEN NaN
    ELSE IF a = Infinity \/ b = Infinity THEN Infinity
    ELSE a + b

\* a < b of two costs; a comparison with NaN or undefined is false
Dijkstra_Less(a, b) ==
    /\ a \notin {NaN, NoCost} /\ b \notin {NaN, NoCost}
    /\ a # Infinity
    /\ (b = Infinity \/ a < b)

\* distances[id]
Dijkstra_Distance(distances, id) == IF id \in DOMAIN distances THEN distances[id] ELSE NoCost

\* this.values.push(element); this.values.sort((a, b) => a[0] - b[0]): stable
Dijkstra_InsertByCost(sorted, x) ==
    LET later == {i \in 1..Len(sorted) : Dijkstra_Less(x.cost, sorted[i].cost)}
        p == IF later = {} THEN Len(sorted) + 1
             ELSE CHOOSE i \in later : \A j \in later : i <= j
    IN  SubSeq(sorted, 1, p - 1) \o <<x>> \o SubSeq(sorted, p, Len(sorted))

RECURSIVE Dijkstra_SortPrefix(_, _)
Dijkstra_SortPrefix(values, n) ==
    IF n = 0 THEN <<>>
    ELSE CHOOSE out \in {Dijkstra_InsertByCost(front, values[n]) :
                            front \in {Dijkstra_SortPrefix(values, n - 1)}} : TRUE

Dijkstra_enqueue(values, element) ==
    LET pushed == Append(values, element)
    IN  Dijkstra_SortPrefix(pushed, Len(pushed))

\* The body of the for loop over the neighbors of the current node
Dijkstra_Relax(st, neighbors, currentCost, currentNodeId, neighborId) ==
    LET travelCost == neighbors.cost[neighborId]
        newCost == Dijkstra_Plus(currentCost, travelCost)
    IN  IF Dijkstra_Less(newCost, Dijkstra_Distance(st.distances, neighborId))
          THEN [distances |-> (neighborId :> newCost) @@ st.distances,
                previous |-> (neighborId :> currentNodeId) @@ st.previous,
                values |-> Dijkstra_enqueue(st.values, [cost |-> newCost, id |-> neighborId])]
        ELSE st

RECURSIVE Dijkstra_RelaxAll(_, _, _, _, _)
Dijkstra_RelaxAll(st, neighbors, currentCost, currentNodeId, k) ==
    IF k > Len(neighbors.keys) THEN st
    ELSE CHOOSE out \in
             {Dijkstra_RelaxAll(next, neighbors, currentCost, currentNodeId, k + 1) :
                 next \in {Dijkstra_Relax(st, neighbors, currentCost, currentNodeId,
                                          neighbors.keys[k])}} :
             TRUE

\* The coordinates that the features of the last build hold
FeaturePoints ==
    UNION {SetOf(features.items[k].coordinates) :
              k \in {j \in 1..Len(features.items) : features.items[j].type = "LineString"}}

\* currentNode.split(',').map(Number): the coordinates that are joined to the id
Dijkstra_SplitId(id) == CHOOSE c \in FeaturePoints : Dijkstra_NodeId(c) = id

\* reconstructPath(endNodeId, previous): the loop while (currentNode) with
\* path.unshift; null and undefined end it
RECURSIVE Dijkstra_reconstructPath(_, _)
Dijkstra_reconstructPath(currentNode, previous) ==
    IF currentNode = "null" THEN <<>>
    ELSE CHOOSE out \in
             {Append(front, Dijkstra_SplitId(currentNode)) :
                 front \in {Dijkstra_reconstructPath(
                               IF currentNode \in DOMAIN previous THEN previous[currentNode]
                               ELSE "null", previous)}} :
             TRUE

\* One-way and two-way roads along a street and around a corner, a road
\* without speed, a road whose speed is no number, and a point feature
DijkstraCatalogue ==
    << LineString(<<PA, PB>>, [NoProps EXCEPT !.oneway = Str("forward"), !.speed = Num(50)]),
       LineString(<<PB, <<119, 0>>>>, [NoProps EXCEPT !.speed = Str("40")]),
       LineString(<<PC, PB>>, [NoProps EXCEPT !.oneway = Str("backward"), !.speed = Num(50)]),
       LineString(<<PA, PD>>, [NoProps EXCEPT !.oneway = Str("both")]),
       LineString(<<PA, PD, PC>>, [NoProps EXCEPT !.oneway = Str("FORWARD"),
                                                  !.speed = Str("fast")]),
       Geometry("Point", <<PA>>) >>

\* buildRoadGraph(roadFeatures)
Dijkstra_BuildRoadGraph(input) ==
    /\ pc = "idle"
    /\ roadGraph' = Dijkstra_buildRoadGraph(input)
    /\ features' = input
    /\ ret' = NoReturn
    /\ UNCHANGED <<roadSegments, pc, locals, lastBuild, outside>>

\* calculatePath(startId, endId) and dijkstra(startNodeId), up to the while loop
Dijkstra_CalculatePath(startId, endId) ==
    /\ pc = "idle"
    /\ startNodeId' = startId
    /\ endNodeId' = endId
    /\ UNCHANGED <<features, roadGraph, roadSegments, visited, lastBuild, outside>>
    /\ IF startId = "null" \/ endId = "null"
         THEN /\ ret' = RouteResult(<<>>, Infinity, 0, "Start or End node missing.")
              /\ pc' = "done"
              /\ UNCHANGED <<openSet, gScore, cameFrom>>
       ELSE /\ gScore' = (startId :> 0) @@ [id \in SetOf(roadGraph.keys) |-> Infinity]
            /\ cameFrom' = [id \in SetOf(roadGraph.keys) |-> "null"]
            /\ openSet' = Dijkstra_enqueue(<<>>, [cost |-> 0, id |-> startId])
            /\ ret' = NoReturn
            /\ pc' = "dijkstra"

\* One iteration of while (!pq.isEmpty()); for (let neighborId in undefined)
\* runs no iteration
Dijkstra_Iteration ==
    /\ pc = "dijkstra"
    /\ openSet # <<>>
    /\ UNCHANGED <<features, roadGraph, roadSegments, pc, startNodeId, endNodeId, visited,
                   ret, lastBuild, outside>>
    /\ LET currentCost == openSet[1].cost
           currentNodeId == openSet[1].id
           rest == Tail(openSet)
       IN  IF Dijkstra_Less(Dijkstra_Distance(gScore, currentNodeId), currentCost)
                \/ currentNodeId \notin DOMAIN roadGraph.node
             THEN /\ openSet' = rest
                  /\ UNCHANGED <<gScore, cameFrom>>
           ELSE \E st \in {Dijkstra_RelaxAll([distances |-> gScore, previous |-> cameFrom,
                                               values |-> rest],
                                              roadGraph.node[currentNodeId],
                                              currentCost, currentNodeId, 1)} :
                    /\ openSet' = st.values
                    /\ gScore' = st.distances
                    /\ cameFrom' = st.previous

\* dijkstra returns; calculatePath tests distances[endId] and returns
Dijkstra_Finish ==
    /\ pc = "dijkstra"
    /\ openSet = <<>>
    /\ ret' = IF Dijkstra_Distance(gScore, endNodeId) = Infinity
                THEN RouteResult(<<>>, Infinity, 0,
                                 "End point is unreachable from start point.")
              ELSE RouteResult(Dijkstra_reconstructPath(endNodeId, cameFrom),
                               Dijkstra_Distance(gScore, endNodeId), 0, "")
    /\ pc' = "done"
    /\ UNCHANGED <<features, roadGraph, roadSegments, locals, lastBuild, outside>>

\* Ids handed to calculatePath: the endpoints of the segments, and null
EndpointIds == {Dijkstra_NodeId(c) : c \in FeaturePoints} \cup {"null"}

NextDijkstra ==
    \/ \E input \in FeatureLists(DijkstraCatalogue) : Dijkstra_BuildRoadGraph(input)
    \/ \E startId \in EndpointIds : \E endId \in EndpointIds :
          Dijkstra_CalculatePath(startId, endId)
    \/ Dijkstra_Iteration
    \/ Dijkstra_Finish
    \/ Return

SpecDijkstra == Init /\ [][NextDijkstra]_vars

-----------------------------------------------------------------------------
(* The map page, src/unmined.js: the path points, the path layer and the      *)
(* context-menu callbacks.  The callbacks call findNearestNode and            *)
(* calculatePath of src/unnamed/part_004.  The projection of block            *)
(* coordinates to view coordinates is left out; the negation of Z is kept.    *)

\* blockCoordForGraph and the argument of ol.proj.transform in pathBlockToView
NegateZ(c) == <<c[1], 0 - c[2]>>

\* updatePathMarkers: the features it adds
PathMarkers(startCoordinates, endCoordinates) ==
    (IF startCoordinates # NoPoint
       THEN <<[kind |-> "A", coords |-> <<startCoordinates>>]>> ELSE <<>>)
    \o (IF endCoordinates # NoPoint
          THEN <<[kind |-> "B", coords |-> <<endCoordinates>>]>> ELSE <<>>)

\* clearPathVisualization: what is on the layer after it
clearPathVisualization(startCoordinates, endCoordinates) ==
    PathMarkers(startCoordinates, endCoordinates)

\* Faulty variant: a path of one coordinate is drawn too
drawPath_SinglePoint(blockCoords, startCoordinates, endCoordinates) ==
    clearPathVisualization(startCoordinates, endCoordinates)
    \o (IF Len(blockCoords) >= 1
          THEN <<[kind |-> "line",
                  coords |-> [i \in 1..Len(blockCoords) |-> NegateZ(blockCoords[i])]]>>
        ELSE <<>>)
    \o PathMarkers(startCoordinates, endCoordinates)

\* drawPath(blockCoords): what is on the layer after it
drawPath(blockCoords, startCoordinates, endCoordinates) ==
    clearPathVisualization(startCoordinates, endCoordinates)
    \o (IF Len(blockCoords) >= 2
          THEN <<[kind |-> "line",
                  coords |-> [i \in 1..Len(blockCoords) |-> NegateZ(blockCoords[i])]]>>
        ELSE <<>>)
    \o PathMarkers(startCoordinates, endCoordinates)

\* The callback of Set Path Start, up to its calculateAndRenderPath call
SetPathStart(coordinates) ==
    /\ pc = "idle"
    /\ ~inHandler
    /\ pathStartCoordinates' = coordinates
    /\ pathLayerSource' = clearPathVisualization(coordinates, pathEndCoordinates)
    /\ inHandler' = TRUE
    /\ UNCHANGED <<features, roadGraph, roadSegments, pc, locals, ret, lastBuild, earlier,
                   reconstruction, pathEndCoordinates>>

\* The callback of Set Path End, up to its calculateAndRenderPath call
SetPathEnd(coordinates) ==
    /\ pc = "idle"
    /\ ~inHandler
    /\ pathEndCoordinates' = coordinates
    /\ pathLayerSource' = clearPathVisualization(pathStartCoordinates, coordinates)
    /\ inHandler' = TRUE
    /\ UNCHANGED <<features, roadGraph, roadSegments, pc, locals, ret, lastBuild, earlier,
                   reconstruction, pathStartCoordinates>>

\* Faulty variant: the points are forgotten but the layer is left as it is
ClearPathPoints_KeepsLayer ==
    /\ pc = "idle"
    /\ ~inHandler
    /\ pathStartCoordinates # NoPoint \/ pathEndCoordinates # NoPoint
    /\ pathStartCoordinates' = NoPoint
    /\ pathEndCoordinates' = NoPoint
    /\ UNCHANGED <<features, roadGraph, roadSegments, pc, locals, ret, lastBuild, earlier,
                   reconstruction, pathLayerSource, inHandler>>

\* The callback of Clear Path Points; the item is offered when a point is set
ClearPathPoints ==
    /\ pc = "idle"
    /\ ~inHandler
    /\ pathStartCoordinates # NoPoint \/ pathEndCoordinates # NoPoint
    /\ pathStartCoordinates' = NoPoint
    /\ pathEndCoordinates' = NoPoint
    /\ pathLayerSource' = clearPathVisualization(NoPoint, NoPoint)
    /\ UNCHANGED <<features, roadGraph, roadSegments, pc, locals, ret, lastBuild, earlier,
                   reconstruction, inHandler>>

\* calculateAndRenderPath, up to the return of its calculatePath call
CalculateAndRenderPath ==
    /\ pc = "idle"
    /\ inHandler
    /\ IF pathStartCoordinates = NoPoint \/ pathEndCoordinates = NoPoint
            \/ roadGraph.keys = <<>>
         THEN /\ inHandler' = FALSE
              /\ UNCHANGED <<features, roadGraph, roadSegments, pc, locals, ret,
                             lastBuild, earlier,
                             reconstruction, pathStartCoordinates, pathEndCoordinates,
                             pathLayerSource>>
       ELSE \E startId \in {findNearestNode(roadGraph, roadSegments,
                                             NegateZ(pathStartCoordinates))} :
            \E endId \in {findNearestNode(roadGraph, roadSegments,
                                           NegateZ(pathEndCoordinates))} :
               IF startId = "null" \/ endId = "null"
                 THEN /\ pathLayerSource' =
                            clearPathVisualization(pathStartCoordinates, pathEndCoordinates)
                      /\ inHandler' = FALSE
                      /\ UNCHANGED <<features, roadGraph, roadSegments, pc, locals, ret,
                                     lastBuild, earlier, reconstruction, pathStartCoordinates,
                                     pathEndCoordinates>>
               ELSE CalculatePath(startId, endId)

\* calculateAndRenderPath after the return of calculatePath; ret keeps the result
RenderResult ==
    /\ pc = "done"
    /\ inHandler
    /\ pathLayerSource' =
          IF ret.path = <<>>
            THEN clearPathVisualization(pathStartCoordinates, pathEndCoordinates)
          ELSE drawPath(ret.path, pathStartCoordinates, pathEndCoordinates)
    /\ inHandler' = FALSE
    /\ pc' = "idle"
    /\ openSet' = <<>>
    /\ gScore' = <<>>
    /\ cameFrom' = <<>>
    /\ visited' = {}
    /\ UNCHANGED <<features, roadGraph, roadSegments, startNodeId, endNodeId, ret,
                   lastBuild, earlier, reconstruction, pathStartCoordinates, pathEndCoordinates>>

\* Roads under the page: a two-way street, a one-way street that leads into
\* it, and a street whose direction code is not one of B, BE, EB
PageCatalogue ==
    << LineString(<<PA, PB>>, [NoProps EXCEPT !.Path = Str("B")]),
       LineString(<<PB, PE>>, [NoProps EXCEPT !.Path = Str("EB")]),
       LineString(<<<<200, 0>>, <<260, 0>>>>, [NoProps EXCEPT !.Path = Str("x")]) >>

\* Click positions, as the page has them (Z inverted), in half blocks
ClickPoints == {<<2, -4>>, <<4, 2>>, <<118, 6>>, <<202, 0>>, <<500, 500>>}

\* The road data is loaded while no path point is set; then the menu is used
NextPage ==
    \/ \E input \in FeatureLists(PageCatalogue) :
          /\ ~inHandler
          /\ pathStartCoordinates = NoPoint
          /\ pathEndCoordinates = NoPoint
          /\ BuildRoadGraph(input)
    \/ \E coordinates \in ClickPoints : SetPathStart(coordinates)
    \/ \E coordinates \in ClickPoints : SetPathEnd(coordinates)
    \/ ClearPathPoints
    \/ CalculateAndRenderPath
    \/ SearchIteration
    \/ SearchFails
    \/ RenderResult

SpecPage == Init /\ [][NextPage]_vars

-----------------------------------------------------------------------------
(* Vocabulary of the properties: routes over the built graph, stated without *)
(* the search                                                                *)

AbsDiff(a, b) == IF a >= b THEN a - b ELSE b - a

OutEdges(id) == SetOf(roadGraph.node[id].edges)

NodeCoord(id) == <<roadGraph.node[id].x, roadGraph.node[id].z>>

IsNode(id) == id \in SetOf(roadGraph.keys)

\* A calculatePath call has returned (or thrown)
RouteDone == pc = "done" /\ ret.fn = "calculatePath"

RouteFound == RouteDone /\ ~ret.threw /\ ret.message = "Route found."

\* (node, level of the edge taken into it) pairs one more level-legal edge away
LegalStep(S) ==
    S \cup UNION {{<<e.toId, e.level>> :
                      e \in {e2 \in OutEdges(st[1]) : AbsDiff(st[2], e2.level) <= 1}} :
                  st \in S}

RECURSIVE LegalClosure(_)
LegalClosure(S) == IF LegalStep(S) = S THEN S ELSE LegalClosure(LegalStep(S))

\* Where level-legal chains of one or more edges out of a node can arrive
ArrivalStates(from) == LegalClosure({<<e.toId, e.level>> : e \in OutEdges(from)})

LegalChainExists(from, to) == \E st \in ArrivalStates(from) : st[1] = to

\* Levels the i-th hop of a node sequence can have, in a level-legal chain along it
RECURSIVE HopLevels(_, _)
HopLevels(ids, i) ==
    LET here == {e.level : e \in {e2 \in OutEdges(ids[i]) : e2.toId = ids[i + 1]}}
    IN  IF i = 1 THEN here
        ELSE {l \in here : \E l0 \in HopLevels(ids, i - 1) : AbsDiff(l, l0) <= 1}

FollowsLegalChain(path) ==
    LET ids == [i \in 1..Len(path) |-> NodeId(path[i])]
    IN  /\ \A i \in 1..Len(path) : IsNode(ids[i]) /\ NodeCoord(ids[i]) = path[i]
        /\ Len(path) > 1 => HopLevels(ids, Len(path) - 1) # {}

\* Cheapest level-legal chain: (node, level, cost) triples, relaxed to a fixpoint
Cheapest(T) ==
    {t \in T : \A u \in T : (u[1] = t[1] /\ u[2] = t[2]) => t[3] <= u[3]}

RelaxAll(T) ==
    Cheapest(T \cup UNION {{<<e.toId, e.level, t[3] + e.cost>> :
                               e \in {e2 \in OutEdges(t[1]) : AbsDiff(t[2], e2.level) <= 1}} :
                           t \in T})

RECURSIVE RelaxToFixpoint(_)
RelaxToFixpoint(T) == IF RelaxAll(T) = T THEN T ELSE RelaxToFixpoint(RelaxAll(T))

SetMin(S) == CHOOSE x \in S : \A y \in S : x <= y

\* The least cost of a level-legal chain from one node to another that a chain
\* reaches (the empty chain when they are the same node)
MinimumCost(from, to) ==
    IF from = to THEN 0
    ELSE LET first == Cheapest({<<e.toId, e.level, e.cost>> : e \in OutEdges(from)})
         IN  SetMin({t[3] : t \in {u \in RelaxToFixpoint(first) : u[1] = to}})

-----------------------------------------------------------------------------
(* Properties *)

\* C1: a route that calculatePath reports as found starts at the start node's
\* coordinate, ends at the end node's coordinate and runs along directed edges of
\* roadGraph whose levels differ by at most 1 from one hop to the next.
C1_FoundPathIsLegalChain ==
    RouteFound =>
        /\ Len(ret.path) >= 1
        /\ ret.path[1] = NodeCoord(startNodeId)
        /\ ret.path[Len(ret.path)] = NodeCoord(endNodeId)
        /\ FollowsLegalChain(ret.path)

\* C1 witness: a found route of three hops that climbs from level 0 to level 2
C1_Witness ==
    /\ RouteFound
    /\ Len(ret.path) = 4
    /\ \E e \in OutEdges(startNodeId) : e.level = 0
    /\ \A e \in OutEdges(NodeId(ret.path[3])) : e.toId = endNodeId => e.level = 2

\* C2: with both ids nodes and the start node having an outgoing edge, the answer
\* is 'Route found.' exactly when start = end or a level-legal chain of directed
\* edges leads from start to end.
C2_FoundIffLegalChain ==
    (RouteDone /\ IsNode(startNodeId) /\ IsNode(endNodeId) /\ OutEdges(startNodeId) # {}) =>
        /\ ~ret.threw
        /\ ret.message = "Route found."
             <=> (startNodeId = endNodeId \/ LegalChainExists(startNodeId, endNodeId))
        /\ ret.message # "Route found." => ret.message = "No path found."

\* C2 witness: the end is joined to the start by directed edges, but only through
\* a direct hop from level 0 to level 2, and the search has reported failure
C2_Witness ==
    /\ RouteDone
    /\ ret.message = "No path found."
    /\ \E e \in OutEdges(startNodeId) : e.level = 0 /\ e.toId # endNodeId
          /\ \E e2 \in OutEdges(e.toId) : e2.toId = endNodeId /\ e2.level = 2

\* C3: the totalCost of a found route is the least sum of edge costs over all
\* level-legal chains of directed edges from start to end.
C3_TotalCostIsMinimum ==
    RouteFound => ret.totalCost = MinimumCost(startNodeId, endNodeId)


\* Vocabulary of C4: the direction code of a feature and the edges its segments
\* are to give
DirectionCode(f) ==
    JsToString(Coalesce(Coalesce(f.properties.Path, f.properties.oneway), Str("")))

IsRoad(f) ==
    /\ f.kind = "object" /\ f.hasGeometry /\ f.type = "LineString" /\ Len(f.coordinates) >= 2
    /\ parseRoadType(f.properties) \notin {"walkway", "walkways"}

\* (feature, segment) positions of the last build
SegmentPlaces ==
    UNION {{<<k, i>> : i \in 1..(Len(features.items[k].coordinates) - 1)} :
           k \in {j \in 1..Len(features.items) : IsRoad(features.items[j])}}

SegmentEdge(pl, from, to) ==
    LET f == features.items[pl[1]]
    IN  [from |-> NodeId(f.coordinates[from]),
         edge |-> [toId |-> NodeId(f.coordinates[to]),
                   level |-> parseLevel(f.properties),
                   cost |-> EdgeCost(calculateDistance(f.coordinates[from], f.coordinates[to]),
                                     parseSpeed(f.properties))],
         place |-> pl, forward |-> from < to]

ExpectedEdges ==
    {SegmentEdge(pl, pl[2], pl[2] + 1) :
        pl \in {x \in SegmentPlaces : DirectionCode(features.items[x[1]]) \in {"BE", "B"}}}
    \cup
    {SegmentEdge(pl, pl[2] + 1, pl[2]) :
        pl \in {x \in SegmentPlaces : DirectionCode(features.items[x[1]]) \in {"EB", "B"}}}

CodesRecognised ==
    \A k \in 1..Len(features.items) :
        IsRoad(features.items[k]) => DirectionCode(features.items[k]) \in {"B", "BE", "EB"}

\* C4: each segment of a road feature gives exactly one edge start->end for code
\* BE, exactly one edge end->start for code EB, and for code B one edge each way
\* with the same cost and level; so every node's edge list holds each edge as often
\* as the segments ask for it, and nothing else.
C4_EdgesPerDirectionCode ==
    (pc = "idle" /\ features.isArray /\ CodesRecognised) =>
        /\ \A x \in ExpectedEdges : IsNode(x.from)
        /\ \A id \in SetOf(roadGraph.keys) :
              LET edges == roadGraph.node[id].edges
              IN  \A e \in SetOf(edges) \cup {x.edge : x \in {y \in ExpectedEdges : y.from = id}} :
                     Cardinality({j \in 1..Len(edges) : edges[j] = e})
                       = Cardinality({x \in ExpectedEdges : x.from = id /\ x.edge = e})

\* C4 witness: a graph built from a one-way BE road, a one-way EB road and a
\* two-way road
C4_Witness ==
    /\ pc = "idle"
    /\ features.isArray
    /\ \A c \in {"B", "BE", "EB"} :
          \E k \in 1..Len(features.items) : DirectionCode(features.items[k]) = c
    /\ roadGraph.keys # <<>>

\* C5: calculatePath(x, x) answers 'Route found.' with the single-point path of x's
\* coordinate, cost 0 and distance 0, for every node x of the graph.
C5_SelfRouteForEveryNode ==
    (RouteDone /\ startNodeId = endNodeId /\ IsNode(startNodeId)) =>
        /\ ~ret.threw
        /\ ret.message = "Route found."
        /\ ret.path = <<NodeCoord(startNodeId)>>
        /\ ret.totalCost = 0
        /\ ret.distance = 0

\* Vocabulary of C6: the graph was built from one ForwardOnly segment A -> B
SingleForwardOnly ==
    /\ features.isArray
    /\ Len(features.items) = 1
    /\ IsRoad(features.items[1])
    /\ Len(features.items[1].coordinates) = 2
    /\ DirectionCode(features.items[1]) = "BE"
    /\ NodeId(features.items[1].coordinates[1]) # NodeId(features.items[1].coordinates[2])

SegmentA == NodeId(features.items[1].coordinates[1])

SegmentB == NodeId(features.items[1].coordinates[2])

\* C6 as stated: over a single ForwardOnly segment A -> B, calculatePath(A, B)
\* finds the route and calculatePath(B, A) answers 'No path found.' with an empty
\* path.
C6_BackwardIsNoPathFound ==
    (RouteDone /\ SingleForwardOnly) =>
        /\ (startNodeId = SegmentA /\ endNodeId = SegmentB) => ret.message = "Route found."
        /\ (startNodeId = SegmentB /\ endNodeId = SegmentA) =>
              ret.message = "No path found." /\ ret.path = <<>>

\* C6 amended: over a single ForwardOnly segment A -> B, calculatePath(A, B) finds
\* the route A, B and calculatePath(B, A) fails with an empty path and the status
\* 'Start node has no outgoing edges.'.
C6_BackwardFails ==
    (RouteDone /\ SingleForwardOnly) =>
        /\ (startNodeId = SegmentA /\ endNodeId = SegmentB) =>
              /\ ~ret.threw
              /\ ret.message = "Route found."
              /\ ret.path = <<NodeCoord(SegmentA), NodeCoord(SegmentB)>>
        /\ (startNodeId = SegmentB /\ endNodeId = SegmentA) =>
              /\ ~ret.threw
              /\ ret.message = "Start node has no outgoing edges."
              /\ ret.path = <<>>

\* C6 witness: the backward call over a single ForwardOnly segment has returned
C6_Witness ==
    /\ RouteDone
    /\ SingleForwardOnly
    /\ startNodeId = SegmentB
    /\ endNodeId = SegmentA
    /\ ret.path = <<>>

\* Vocabulary of C7: nodes joined by segments, whatever their direction
Joined(S) ==
    S \cup {roadSegments[k].endId : k \in {j \in 1..Len(roadSegments) : roadSegments[j].startId \in S}}
      \cup {roadSegments[k].startId : k \in {j \in 1..Len(roadSegments) : roadSegments[j].endId \in S}}

RECURSIVE Component(_)
Component(S) == IF Joined(S) = S THEN S ELSE Component(Joined(S))

DisjointEndpoints ==
    IsNode(startNodeId) /\ IsNode(endNodeId) /\ endNodeId \notin Component({startNodeId})

\* C7 as stated: between two nodes of disjoint components calculatePath answers
\* 'No path found.' with an empty path.
C7_DisjointIsNoPathFound ==
    (RouteDone /\ DisjointEndpoints) =>
        ret.message = "No path found." /\ ret.path = <<>>

\* C7 amended: between two nodes of disjoint components calculatePath returns an
\* empty path with cost 0 and distance 0, and the status is 'No path found.' when
\* the start node has an outgoing edge and 'Start node has no outgoing edges.'
\* when it has none.
C7_DisjointFails ==
    (RouteDone /\ DisjointEndpoints) =>
        /\ ~ret.threw
        /\ ret.path = <<>>
        /\ ret.totalCost = 0
        /\ ret.distance = 0
        /\ ret.message = IF OutEdges(startNodeId) = {}
                           THEN "Start node has no outgoing edges."
                           ELSE "No path found."

\* C7 witness: a search from a node with outgoing edges towards a node of another
\* component has run the frontier empty
C7_Witness ==
    /\ RouteDone
    /\ DisjointEndpoints
    /\ OutEdges(startNodeId) # {}
    /\ visited # {}
    /\ ret.message = "No path found."

\* C8: 'Start or end node not found.' is the answer exactly when one of the ids is
\* not a node; otherwise 'Start node has no outgoing edges.' is the answer exactly
\* when the start node's edge list is empty; both come as returned values with an
\* empty path, cost 0 and distance 0, and no call throws.
C8_ExplicitFailureStatus ==
    RouteDone =>
        /\ ~ret.threw
        /\ ret.message = "Start or end node not found."
             <=> (~IsNode(startNodeId) \/ ~IsNode(endNodeId))
        /\ (IsNode(startNodeId) /\ IsNode(endNodeId)) =>
              (ret.message = "Start node has no outgoing edges."
                 <=> OutEdges(startNodeId) = {})
        /\ ret.message \in {"Start or end node not found.", "Start node has no outgoing edges."}
              => (ret.path = <<>> /\ ret.totalCost = 0 /\ ret.distance = 0)


\* Vocabulary of C9 and C10: the segments within the snap radius of the query of
\* a findNearestNode call that has returned, by tier
LocateDone == pc = "done" /\ ret.fn = "findNearestNode"

SegmentDistance(k) ==
    pointToSegmentDistance(ret.query, roadSegments[k].start, roadSegments[k].end)

InRadius ==
    {k \in 1..Len(roadSegments) :
        FracLeWhole(SegmentDistance(k), (2 * MAX_DISTANCE) * (2 * MAX_DISTANCE))}

Tier1 == {k \in InRadius : roadSegments[k].roadType \notin {"ramp", "highway"}}

Tier2 == {k \in InRadius : roadSegments[k].roadType # "ramp"}

FirstTier == IF Tier1 # {} THEN Tier1 ELSE IF Tier2 # {} THEN Tier2 ELSE InRadius

Endpoints(k) == {roadSegments[k].startId, roadSegments[k].endId}

\* C9: findNearestNode returns an endpoint of a segment of the first non-empty
\* tier among (1) segments in the radius that are neither ramp nor highway,
\* (2) segments in the radius that are not ramps, (3) all segments in the radius.
C9_FirstNonEmptyTier ==
    (LocateDone /\ InRadius # {}) =>
        /\ ChosenSegment(roadSegments, ret.query) \in FirstTier
        /\ ret.id \in Endpoints(ChosenSegment(roadSegments, ret.query))

\* C9 witness: an ordinary segment and a strictly closer ramp are both in the
\* radius, and the answer is an endpoint of the ordinary segment and of no ramp
C9_Witness ==
    /\ LocateDone
    /\ \E k \in Tier1 : \E j \in InRadius :
          /\ roadSegments[j].roadType = "ramp"
          /\ FracLt(SegmentDistance(j), SegmentDistance(k))
          /\ ret.id \in Endpoints(k)
    /\ \A j \in InRadius : roadSegments[j].roadType = "ramp" => ret.id \notin Endpoints(j)

\* C10: findNearestNode returns null exactly when no segment lies within the snap
\* radius (30 blocks, inclusive, to the clamped segment); and then no node of the
\* graph lies within the radius either, so the fallback search finds nothing.
C10_NullIffNothingInRadius ==
    LocateDone =>
        /\ ret.id = "null" <=> InRadius = {}
        /\ InRadius = {} =>
              \A id \in SetOf(roadGraph.keys) :
                  DistSq(NodeCoord(id), ret.query) > (2 * MAX_DISTANCE) * (2 * MAX_DISTANCE)

\* C10 witness: segments and nodes exist, the query lies on the line through one
\* of them but beyond its end by more than the radius, and the answer is null
C10_Witness ==
    /\ LocateDone
    /\ ret.id = "null"
    /\ \E k \in 1..Len(roadSegments) :
          /\ roadSegments[k].start[2] = ret.query[2]
          /\ roadSegments[k].end[2] = ret.query[2]
    /\ roadGraph.keys # <<>>

-----------------------------------------------------------------------------
(* Properties of the built graph *)

Built == pc = "idle" /\ features.isArray

RoadPlaces == {k \in 1..Len(features.items) : IsRoad(features.items[k])}

\* The speed attribute as the feature gives it
SpeedAttribute(f) == Coalesce(f.properties.speed, f.properties.Speed)

SpeedMissing(f) == SpeedAttribute(f).t \in {"undefined", "null"}

SpeedPositive(f) ==
    ~SpeedMissing(f) /\ ParsesAsFloat(SpeedAttribute(f)) /\ ParseFloat(SpeedAttribute(f)) > 0

SpeedNotPositive(f) ==
    ~SpeedMissing(f) /\ ParsesAsFloat(SpeedAttribute(f)) /\ ParseFloat(SpeedAttribute(f)) <= 0

\* The edge list of a node of a graph, empty when the graph has no such node
EdgesOf(graph, id) == IF id \in DOMAIN graph.node THEN graph.node[id].edges ELSE <<>>

\* The list of the last build without the features that Drop picks
Without(Drop(_)) ==
    [isArray |-> features.isArray, items |-> SelectSeq(features.items, LAMBDA f : ~Drop(f))]

\* Segment pl runs between nodes a and b, in either direction
SegmentJoins(pl, a, b) ==
    LET c == features.items[pl[1]].coordinates
    IN  {NodeId(c[pl[2]]), NodeId(c[pl[2] + 1])} = {a, b}

SegmentLength(pl) ==
    LET c == features.items[pl[1]].coordinates
    IN  calculateDistance(c[pl[2]], c[pl[2] + 1])

\* C11: when every road feature has a speed above 0, every edge of the built
\* graph has a finite cost that is strictly greater than 0 and equals the length
\* of a segment between its two nodes divided by the speed of that segment's
\* feature, also when a polyline repeats a coordinate.
C11_CostIsPositiveQuotient ==
    (Built /\ \A k \in RoadPlaces : SpeedPositive(features.items[k])) =>
        \A id \in SetOf(roadGraph.keys) : \A e \in OutEdges(id) :
            /\ e.cost # NaN
            /\ e.cost > 0
            /\ \E pl \in SegmentPlaces :
                  /\ SegmentJoins(pl, id, e.toId)
                  /\ e.cost * ParseFloat(SpeedAttribute(features.items[pl[1]]))
                       = SegmentLength(pl) * TimeDen

\* C12: a road feature whose speed is missing or is 0 or less contributes no edge:
\* every node's edge list is the one that the same list without those features
\* gives.
C12_NoEdgeWithoutSpeed ==
    Built =>
        LET passable == buildRoadGraph(Without(LAMBDA f :
                            IsRoad(f) /\ (SpeedMissing(f) \/ SpeedNotPositive(f)))).graph
        IN  \A id \in SetOf(roadGraph.keys) \cup DOMAIN passable.node :
                EdgesOf(roadGraph, id) = EdgesOf(passable, id)

\* C13: the graph and the segment list are those of one build of the last call's
\* list from nothing, whatever was built before: a second build of the same list
\* changes nothing, and nothing of a build of another list is left.
C13_StateIsLastBuild ==
    pc = "idle" =>
        LET once == buildRoadGraph(features)
        IN  /\ roadGraph = once.graph
            /\ roadSegments = once.segments
            /\ SetOf(roadGraph.keys) = DOMAIN roadGraph.node
            /\ Len(roadSegments) = Cardinality(SegmentPlaces)

\* C13 witness: a list with roads has been built over the graph of another list
C13_Witness ==
    /\ pc = "idle"
    /\ lastBuild = "other"
    /\ roadGraph.keys # <<>>
    /\ Len(roadSegments) = 1

\* Array elements that are no LineString features with two or more coordinates
Malformed(f) ==
    \/ f.kind = "null"
    \/ f.kind # "object"
    \/ ~f.hasGeometry
    \/ f.type # "LineString"
    \/ Len(f.coordinates) < 2

\* Vocabulary of C15: LineString features of a pedestrian class
Pedestrian(f) ==
    /\ ~Malformed(f)
    /\ ToLowerCase(JsToString(Coalesce(Coalesce(f.properties.Type, f.properties.type),
                                       Str("")))) \in {"walkway", "walkways"}

PedestrianPlaces == {k \in 1..Len(features.items) : Pedestrian(features.items[k])}

\* Squared distance from the query of the last findNearestNode call to the j-th
\* piece of feature k
PieceDistance(k, j) ==
    pointToSegmentDistance(ret.query, features.items[k].coordinates[j],
                           features.items[k].coordinates[j + 1])

\* C15: a walkway / walkways feature, however its class is capitalised, gives no
\* node, no edge and no segment: the graph and the segment list are those of the
\* list without the pedestrian features, no stored segment has a pedestrian
\* class, and findNearestNode answers null or an end of a segment of a road
\* feature.
C15_WalkwayContributesNothing ==
    features.isArray =>
        LET roads == buildRoadGraph(Without(Pedestrian))
        IN  /\ roadGraph = roads.graph
            /\ roadSegments = roads.segments
            /\ \A i \in 1..Len(roadSegments) :
                  roadSegments[i].roadType \notin {"walkway", "walkways"}
            /\ LocateDone =>
                  \/ ret.id = "null"
                  \/ \E pl \in SegmentPlaces :
                        /\ ~Pedestrian(features.items[pl[1]])
                        /\ ret.id \in {NodeId(features.items[pl[1]].coordinates[pl[2]]),
                                        NodeId(features.items[pl[1]].coordinates[pl[2] + 1])}

\* C15 witness: a walkway lies nearer to the query than every stored segment,
\* and findNearestNode has answered a node that is no end of a walkway
C15_Witness ==
    /\ LocateDone
    /\ ret.id # "null"
    /\ \E k \in PedestrianPlaces :
          \A i \in 1..Len(roadSegments) : FracLt(PieceDistance(k, 1), SegmentDistance(i))
    /\ \A k \in PedestrianPlaces :
          ret.id \notin {NodeId(features.items[k].coordinates[1]),
                         NodeId(features.items[k].coordinates[2])}

\* Vocabulary of C16 and C17: the attributes as the feature gives them
CodeAttribute(f) == Coalesce(f.properties.Path, f.properties.oneway)

CodeAbsent(f) == CodeAttribute(f).t \in {"undefined", "null"}

CodeRecognised(f) ==
    ~CodeAbsent(f) /\ ToUpperCase(JsToString(CodeAttribute(f))) \in {"B", "BE", "EB"}

HasEdge(from, to) == IsNode(from) /\ \E e \in OutEdges(from) : e.toId = to

\* C16: a road feature whose direction code is absent or is none of B, BE, EB is
\* treated as Both: each of its segments has an edge from its start node to its
\* end node and an edge from its end node to its start node.
C16_UnrecognisedCodeIsBoth ==
    Built =>
        \A pl \in SegmentPlaces :
            LET f == features.items[pl[1]]
                a == NodeId(f.coordinates[pl[2]])
                b == NodeId(f.coordinates[pl[2] + 1])
            IN  ~CodeRecognised(f) => (HasEdge(a, b) /\ HasEdge(b, a))

\* Vocabulary of C17: the level attribute, and the strings that spell an integer
LevelAttribute(f) == Coalesce(f.properties.Level, f.properties.level)

IntegerSpellings == {"-1", "0", "1", "2", "3"}

LevelIsNumeric(f) ==
    \/ LevelAttribute(f).t = "number"
    \/ LevelAttribute(f).t = "string" /\ LevelAttribute(f).s \in IntegerSpellings

\* The edges between two nodes that a segment of feature f accounts for
EdgesOfSegment(pl) ==
    LET f == features.items[pl[1]]
        a == NodeId(f.coordinates[pl[2]])
        b == NodeId(f.coordinates[pl[2] + 1])
    IN  {<<a, e>> : e \in {e2 \in SetOf(EdgesOf(roadGraph, a)) : e2.toId = b}}
          \cup {<<b, e>> : e \in {e2 \in SetOf(EdgesOf(roadGraph, b)) : e2.toId = a}}

C18_EarlierBuildUnchanged ==
    [][(pc = "idle" /\ features.isArray /\ roadGraph.keys # <<>> /\ features' # features)
          => (roadGraph' = roadGraph /\ roadSegments' = roadSegments)]_vars

\* Vocabulary of C19: a list without its k-th element
RemoveAt(seq, k) == SubSeq(seq, 1, k - 1) \o SubSeq(seq, k + 1, Len(seq))

\* C19: an element that is null, no object, without geometry, no LineString or
\* with fewer than two coordinates is skipped: the graph and the segment list are
\* those built from the list without that element.
C19_MalformedIsSkipped ==
    Built =>
        \A k \in 1..Len(features.items) :
            Malformed(features.items[k]) =>
                LET rest == buildRoadGraph([isArray |-> TRUE,
                                           items |-> RemoveAt(features.items, k)])
                IN  /\ roadGraph = rest.graph
                    /\ roadSegments = rest.segments

\* C19 witness: a list with a non-feature before a road feature has been built,
\* and the road's nodes are there
C19_Witness ==
    /\ Built
    /\ Len(features.items) >= 2
    /\ Malformed(features.items[1])
    /\ ~Malformed(features.items[Len(features.items)])
    /\ roadGraph.keys # <<>>
    /\ roadSegments # <<>>

\* Vocabulary of C14: the integer pair nearest to a coordinate given in half
\* blocks (a half goes up), its spelling as an id, the features whose segments
\* are connected, and the ids of a feature's coordinates
Nearest(c) == IF c % 2 = 1 THEN c \div 2 + 1 ELSE c \div 2

RoundedPair(c) == <<Nearest(c[1]), Nearest(c[2])>>

PairId(p) == ToString(p[1]) \o "," \o ToString(p[2])

StoredPair(id) == RoundedPair(NodeCoord(id))

Connected(f) == IsRoad(f) /\ (CodeAbsent(f) \/ CodeRecognised(f))

TwoWay(f) ==
    IsRoad(f) /\ (CodeAbsent(f) \/ ToUpperCase(JsToString(CodeAttribute(f))) = "B")

PairsOf(f) == {RoundedPair(f.coordinates[i]) : i \in 1..Len(f.coordinates)}

\* Two different two-way features of the last build, on levels at most one
\* apart, with a coordinate each that rounds to the same pair; from is a node
\* on the first and to is a node on the second
JoinedAtSharedPair(from, to) ==
    /\ IsNode(from) /\ IsNode(to)
    /\ \E k1 \in RoadPlaces : \E k2 \in RoadPlaces \ {k1} :
        LET f1 == features.items[k1]
            f2 == features.items[k2]
        IN  /\ TwoWay(f1) /\ TwoWay(f2)
            /\ AbsDiff(parseLevel(f1.properties), parseLevel(f2.properties)) <= 1
            /\ PairsOf(f1) \cap PairsOf(f2) # {}
            /\ StoredPair(from) \in PairsOf(f1)
            /\ StoredPair(to) \in PairsOf(f2)

\* C14: the graph has one node for each rounded coordinate pair of its connected
\* features and no two nodes for the same pair, the id of a node is the spelling
\* of its own stored coordinate rounded, and where a coordinate of one two-way
\* feature and a coordinate of another round to the same pair (levels at most one
\* apart), a route from a node of the one to a node of the other is found.
C14_OneNodePerRoundedPair ==
    /\ \A a \in SetOf(roadGraph.keys) : \A b \in SetOf(roadGraph.keys) :
          StoredPair(a) = StoredPair(b) => a = b
    /\ \A a \in SetOf(roadGraph.keys) : a = PairId(StoredPair(a))
    /\ features.isArray =>
          \A k \in RoadPlaces :
              Connected(features.items[k]) =>
                  \A p \in PairsOf(features.items[k]) : IsNode(PairId(p))
    /\ (RouteDone /\ JoinedAtSharedPair(startNodeId, endNodeId)) => RouteFound

\* C14 witness: the road ending at 30,0 and the road starting at 29.5,0 have been
\* built, and a route from the far end of the one to the far end of the other has
\* been found through the node they share
C14_Witness ==
    /\ RouteFound
    /\ SetOf(features.items) = {JunctionCatalogue[1], JunctionCatalogue[2]}
    /\ startNodeId = "0,0"
    /\ endNodeId = "60,0"
    /\ Len(ret.path) = 3
    /\ \E i \in 1..Len(ret.path) : PairId(RoundedPair(ret.path[i])) = "30,0"

\* Vocabulary of C20: the entries of a frontier whose (node, level) pair is in a
\* closed set
Finalized(open, closed) ==
    SelectSeq(open, LAMBDA entry : Key(entry.nodeId, entry.level) \in closed)

\* One pass of the search loop either drops an entry whose pair is finalized and
\* changes nothing else, or finalizes one pair that was not finalized; no entry of
\* a finalized pair is pushed
FinalizesOnce ==
    (pc = "search" /\ openSet # <<>>) =>
        /\ \/ /\ visited' = visited
              /\ Len(openSet') = Len(openSet) - 1
              /\ UNCHANGED <<gScore, cameFrom, ret, pc>>
           \/ \E key \in visited' : key \notin visited /\ visited' = visited \cup {key}
        /\ Len(Finalized(openSet', visited')) < Len(Finalized(openSet, visited'))

\* C20: the search finalizes each (node, level) pair at most once, and a call that
\* has entered the search loop comes to its return, with a route or with 'No path
\* found.', whatever cycles, parallel edges, self-loops and zero-cost edges the
\* graph has.
C20_FinalizesOnceAndHalts ==
    /\ [][FinalizesOnce]_vars
    /\ (pc = "search") ~>
          (RouteDone /\ ~ret.threw /\ ret.message \in {"Route found.", "No path found."})

\* C20 witness: over the graph with the zero-cost self-loop, the cycle and the
\* parallel edge a route through every node has been returned, and an entry of a
\* pair finalized earlier is still in the frontier
C20_Witness ==
    /\ RouteFound
    /\ Len(features.items) = Len(LoopCatalogue)
    /\ \E id \in SetOf(roadGraph.keys) :
          \E e \in OutEdges(id) : e.toId = id /\ e.cost = 0
    /\ Len(ret.path) = Len(roadGraph.keys)
    /\ Finalized(openSet, visited) # <<>>

-----------------------------------------------------------------------------
(* Properties of the queries *)

\* Vocabulary of C22: the segments of the first non-empty tier that no segment of
\* the tier is strictly nearer than, and the endpoint of a segment nearer to the
\* query
NearestInTier ==
    {k \in FirstTier :
        \A j \in FirstTier : ~FracLt(SegmentDistance(j), SegmentDistance(k))}

NearerEndpoint(k) ==
    IF DistSq(ret.query, roadSegments[k].start) <= DistSq(ret.query, roadSegments[k].end)
      THEN roadSegments[k].startId
    ELSE roadSegments[k].endId

\* C22: with a segment in the radius, findNearestNode answers with the nearer
\* endpoint (the start on equal distances) of the segment of the chosen tier that
\* has the smallest clamped distance to the query, the earliest in build order
\* among equally near ones.
C22_NearestSegmentNearerEndpoint ==
    (LocateDone /\ InRadius # {}) =>
        \E k \in NearestInTier :
            /\ \A j \in NearestInTier : k <= j
            /\ ret.id = NearerEndpoint(k)

\* C22 witness: two segments of the chosen tier are equally near the query and
\* their nearer endpoints differ, a segment of a later tier is strictly nearer,
\* and the answer is the endpoint of the earlier of the two
C22_Witness ==
    /\ LocateDone
    /\ \E k \in NearestInTier : \E j \in NearestInTier :
          /\ k < j
          /\ NearerEndpoint(k) # NearerEndpoint(j)
          /\ ret.id = NearerEndpoint(k)
    /\ \E j \in InRadius \ FirstTier :
          \A k \in FirstTier : FracLt(SegmentDistance(j), SegmentDistance(k))

-----------------------------------------------------------------------------
(* Properties of the node-keyed A* revision (src/pathfinding.js) *)

\* Vocabulary of C21: the id reached from id by n steps along the predecessor
\* map ("" once a step finds no predecessor)
RECURSIVE Back(_, _)
Back(id, n) ==
    IF n = 0 \/ id = "" THEN id
    ELSE Back(IF id \in DOMAIN cameFrom THEN cameFrom[id] ELSE "", n - 1)

Acyclic == \A id \in DOMAIN cameFrom : Back(id, Cardinality(DOMAIN cameFrom) + 1) = ""

\* C21: while calculatePath of src/pathfinding.js runs, the start node has no
\* predecessor and the predecessor map has no cycle; and every backward walk
\* ends, with a returned route that begins at the start node.
C21_WalkReachesStart ==
    /\ [](pc \in {"astar", "walk"} => (startNodeId \notin DOMAIN cameFrom /\ Acyclic))
    /\ (pc = "walk") ~>
          (/\ pc = "done"
           /\ ret.message = "Route found."
           /\ ret.path # <<>>
           /\ ret.path[1] = <<roadGraph.node[startNodeId].x, roadGraph.node[startNodeId].z>>)

-----------------------------------------------------------------------------
(* Properties of the map page and of queries on one build *)

\* C23: the two ids that a menu callback got from findNearestNode and handed to
\* calculatePath are nodes of roadGraph, and the answer is not 'Start or end node
\* not found.', whatever list was built.
C23_LocatedIdsAreNodes ==
    (RouteDone /\ inHandler) =>
        /\ IsNode(startNodeId)
        /\ IsNode(endNodeId)
        /\ ret.message # "Start or end node not found."

-----------------------------------------------------------------------------
(* Properties of the segment list *)

\* Vocabulary of C24: the road class of a feature in lower case, and the
\* segments that the features from the k-th on are to give
RoadClass(f) ==
    ToLowerCase(JsToString(Coalesce(Coalesce(f.properties.Type, f.properties.type), Str(""))))

SegmentsOfFeature(f) ==
    [i \in 1..(Len(f.coordinates) - 1) |->
        [start |-> f.coordinates[i], end |-> f.coordinates[i + 1],
         startId |-> PairId(RoundedPair(f.coordinates[i])),
         endId |-> PairId(RoundedPair(f.coordinates[i + 1])),
         roadType |-> RoadClass(f)]]

RECURSIVE SegmentsFrom(_)
SegmentsFrom(k) ==
    IF k > Len(features.items) THEN <<>>
    ELSE (IF Malformed(features.items[k]) \/ Pedestrian(features.items[k])
            THEN <<>>
          ELSE SegmentsOfFeature(features.items[k]))
         \o SegmentsFrom(k + 1)

\* C24: the segment list holds, feature after feature, n-1 segments for each
\* LineString feature of n >= 2 coordinates that is no walkway, each with the
\* endpoints as given, the ids of the rounded endpoints and the road class in
\* lower case, whatever the direction code of the feature.
C24_SegmentsOfEveryRoad ==
    Built => roadSegments = SegmentsFrom(1)

\* C24 witness: the built list has a road whose direction code is unrecognised
\* and whose class is spelled with a capital, a road with an endpoint off its
\* node, a line of three coordinates, and all their segments are in the list
C24_Witness ==
    /\ Built
    /\ \E k \in RoadPlaces :
          /\ ~CodeAbsent(features.items[k]) /\ ~CodeRecognised(features.items[k])
          /\ \E i \in 1..Len(roadSegments) :
                /\ roadSegments[i].roadType = "street"
                /\ roadSegments[i].start = features.items[k].coordinates[1]
    /\ \E i \in 1..Len(roadSegments) :
          roadSegments[i].startId # PairId(<<roadSegments[i].start[1] \div 2,
                                             roadSegments[i].start[2] \div 2>>)
    /\ \E k \in RoadPlaces : Len(features.items[k].coordinates) = 3
    /\ Len(roadSegments) = 4

-----------------------------------------------------------------------------
(* Properties of repeated queries on one build *)

\* What buildRoadGraph makes of the list of the last build
FreshBuild == buildRoadGraph(features)

\* A step of a query: findNearestNode or calculatePath is running before or after it
QueryStep == pc # "idle" \/ pc' # "idle"

\* The call that has just returned had the arguments of the call kept earlier
SameCall ==
    RouteDone /\ earlier # NoCall
        /\ earlier.startId = startNodeId /\ earlier.endId = endNodeId

SameAsEarlier == SameCall => ret = earlier.result

\* C25: findNearestNode and calculatePath leave roadGraph and roadSegments as
\* they are, so a query made after other queries on one built graph returns
\* what it returns on the graph as buildRoadGraph left it: findNearestNode
\* the id it finds on a fresh build of the same list, calculatePath the
\* result of the same call made earlier
C25_QueriesLeaveTheGraph ==
    /\ [][QueryStep => UNCHANGED <<roadGraph, roadSegments>>]_vars
    /\ [](LocateDone =>
             ret.id = findNearestNode(FreshBuild.graph, FreshBuild.segments, ret.query))
    /\ []SameAsEarlier

\* A snap that finds a node, made after a route was found on the same graph
C25_Witness ==
    /\ LocateDone
    /\ ret.id # "null"
    /\ earlier # NoCall
    /\ earlier.result.message = "Route found."

BothOnly == \A k \in RoadPlaces : TwoWay(features.items[k])

\* The call that has just returned had the ids of the call kept earlier, swapped
SwappedCall ==
    RouteDone /\ earlier # NoCall
        /\ earlier.startId = endNodeId /\ earlier.endId = startNodeId

Found(result) == ~result.threw /\ result.message = "Route found."

\* C28: on a graph built from two-way roads only, a route is found from one
\* node to another exactly when one is found back
C28_TwoWayRoutesBothWays ==
    (SwappedCall /\ BothOnly /\ IsNode(startNodeId) /\ IsNode(endNodeId))
        => (Found(ret) <=> Found(earlier.result))

\* Two nodes that a level gap separates: no route there, no route back
C28_Witness ==
    /\ SwappedCall /\ BothOnly
    /\ IsNode(startNodeId) /\ IsNode(endNodeId)
    /\ startNodeId # endNodeId
    /\ ret.message = "No path found."
    /\ earlier.result.message = "No path found."

-----------------------------------------------------------------------------
(* Properties of the edges *)

\* The search is at a state of node id that it has expanded
Expanded(id) == \E level \in -1..2 : Key(id, level) \in visited

\* C26: in the graph that buildRoadGraph leaves, every edge leads to a node of
\* the graph, and every entry of the frontier of calculatePath is a node of
\* the graph, so roadGraph[nodeId].edges (line 286) is never read of undefined
C26_EveryEdgeLeadsToANode ==
    /\ \A id \in SetOf(roadGraph.keys) :
          \A edge \in OutEdges(id) : HasOwn(roadGraph, edge.toId)
    /\ pc = "search" =>
          \A i \in 1..Len(openSet) : HasOwn(roadGraph, openSet[i].nodeId)

\* The search has expanded a node that only receives edges and is not the end
C26_Witness ==
    /\ pc = "search"
    /\ \E id \in SetOf(roadGraph.keys) :
          /\ OutEdges(id) = {}
          /\ id # endNodeId
          /\ Expanded(id)

-----------------------------------------------------------------------------
(* Properties of the Dijkstra revision *)

\* An edge of the graph with a finite cost
FiniteEdge(a, b) ==
    /\ a \in DOMAIN roadGraph.node
    /\ b \in DOMAIN roadGraph.node[a].cost
    /\ roadGraph.node[a].cost[b] \notin {NaN, Infinity}

\* The ids that are reached from the ids of S along finite edges
RECURSIVE ReachedFrom(_)
ReachedFrom(S) ==
    LET T == S \cup {b \in EndpointIds \ {"null"} : \E a \in S : FiniteEdge(a, b)}
    IN  IF T = S THEN S ELSE ReachedFrom(T)

DijkstraDone ==
    pc = "done" /\ ret.fn = "calculatePath" /\ startNodeId # "null" /\ endNodeId # "null"

\* C29: calculatePath of the Dijkstra revision returns a path exactly when the
\* end id is reached from the start id along directed edges of finite cost;
\* the path then begins at the start and ends at the end; otherwise the
\* message is 'End point is unreachable from start point.'
C29_PathIffReachable ==
    DijkstraDone =>
        IF endNodeId \in ReachedFrom({startNodeId})
          THEN /\ ret.path # <<>>
               /\ ret.path[1] = Dijkstra_SplitId(startNodeId)
               /\ ret.path[Len(ret.path)] = Dijkstra_SplitId(endNodeId)
        ELSE /\ ret.path = <<>>
             /\ ret.message = "End point is unreachable from start point."

-----------------------------------------------------------------------------
(* Properties of the path layer *)

\* The route lines among the features of a layer
LinesOn(layer) == {i \in 1..Len(layer) : layer[i].kind = "line"}

\* The point is set and findNearestNode answers a node of the graph for it
SnapsToNode(coordinates) ==
    /\ coordinates # NoPoint
    /\ IsNode(findNearestNode(roadGraph, roadSegments, NegateZ(coordinates)))

\* A menu callback begins: no callback is running and the step changes the page
CallbackBegins == ~inHandler /\ page' # page

\* C30: a route line is on the path layer only if both path points are set,
\* both snap to a node and the last calculatePath result has a path of at
\* least two coordinates, which the line shows; there is never more than one
\* line; the step that begins a callback leaves no line, and a line is drawn
\* only on a layer without a line
C30_LineOnlyForTheLastRoute ==
    /\ [](\A i \in LinesOn(pathLayerSource) :
             /\ SnapsToNode(pathStartCoordinates)
             /\ SnapsToNode(pathEndCoordinates)
             /\ ret.fn = "calculatePath"
             /\ Len(ret.path) >= 2
             /\ pathLayerSource[i].coords = [j \in 1..Len(ret.path) |-> NegateZ(ret.path[j])]
             /\ LinesOn(pathLayerSource) = {i})
    /\ [][CallbackBegins => LinesOn(pathLayerSource') = {}]_vars
    /\ [][(LinesOn(pathLayerSource') # {} /\ pathLayerSource' # pathLayerSource)
              => LinesOn(pathLayerSource) = {}]_vars

\* A route over two streets is on the layer and no callback is running
C30_Witness ==
    /\ pc = "idle" /\ ~inHandler
    /\ \E i \in LinesOn(pathLayerSource) : Len(pathLayerSource[i].coords) = 3

=============================================================================
